---- MODULE Spec2Model ----
(***************************************************************************)
(* A model of the TMS MCP server: the session store kept by SessionManager,*)
(* the seven workflow tools that read and write it, and the OMELET API     *)
(* client (endpoint choice, synchronous call, submit-and-poll, error       *)
(* mapping).                                                               *)
(***************************************************************************)
EXTENDS Integers, Sequences, FiniteSets, TLC

VARIABLES
    sessions,         \* sessions/project_<id>.json: existing id -> ProjectSession
    nextId,           \* the next identifier uuidv4() hands out
    activeSessionId,  \* sessions/active_session.json: 0 when the file is absent
    call,             \* the tool invocation being processed
    ret,              \* what the last finished tool invocation gave its caller
    api,              \* the OmeletAPIClient call in progress
    progress          \* per session: how far the workflow has run in order

vars == <<sessions, nextId, activeSessionId, call, ret, api, progress>>

(***************************************************************************)
(* Bounds of the model.                                                    *)
(***************************************************************************)
MaxSessions == 3     \* sessions created in the session-manager specifications
MaxProjects == 1     \* sessions created in the workflow specification

(***************************************************************************)
(* Optional values: the empty sequence is `undefined', <<v>> is v.         *)
(***************************************************************************)
None == <<>>
Some(v) == <<v>>
IsSome(o) == Len(o) = 1
Get(o) == o[1]

(***************************************************************************)
(* Workflow steps: the keys of WORKFLOW_GUIDES, in declaration order.      *)
(***************************************************************************)
WorkflowSteps ==
    << "start_project", "prepare_data", "configure_problem",
       "solve_optimization", "analyze_results", "refine_solution",
       "export_results" >>

StepNames == { WorkflowSteps[i] : i \in 1..Len(WorkflowSteps) }

\* Object.keys(WORKFLOW_GUIDES).indexOf(step): zero-based, -1 when absent
StepIndex(step) ==
    IF step \in StepNames
    THEN (CHOOSE i \in 1..Len(WorkflowSteps) : WorkflowSteps[i] = step) - 1
    ELSE -1

Includes(seq, x) == \E i \in 1..Len(seq) : seq[i] = x

(***************************************************************************)
(* SessionManager                                                          *)
(***************************************************************************)
NoDataStatus ==
    [ drivers_loaded |-> FALSE, orders_loaded |-> FALSE,
      depots_loaded |-> FALSE, validation_passed |-> FALSE ]

\* the object createSession builds
NewSession ==
    [ current_step |-> 0,
      steps_completed |-> <<>>,
      data_status |-> NoDataStatus,
      config |-> None,
      last_result |-> None,
      auto_detected_constraints |-> None ]

\* loadSession: the stored session, or null
LoadSession(store, sid) == IF sid \in DOMAIN store THEN Some(store[sid]) ELSE None

\* saveSession: (over)writes the session's file
SaveSession(store, sid, s) ==
    [ x \in DOMAIN store \cup {sid} |-> IF x = sid THEN s ELSE store[x] ]

\* deleteSession: removes the session's file
RemoveSession(store, sid) == [ x \in DOMAIN store \ {sid} |-> store[x] ]

\* the session after completeStep's two updates
CompletedStepBug(s, step) ==
    [ s EXCEPT
        !.steps_completed = IF Includes(@, step) THEN @ ELSE Append(@, step),
        !.current_step = StepIndex(step) + 1 ]

\* completeStep pushing the step even when it is already there
CompletedStepAgain(s, step) ==
    [ s EXCEPT
        !.steps_completed = Append(@, step),
        !.current_step = IF StepIndex(step) >= @ THEN StepIndex(step) + 1 ELSE @ ]

\* completeStep's two updates of the session it loaded
CompletedStep(s, step) ==
    [ s EXCEPT
        !.steps_completed = IF Includes(@, step) THEN @ ELSE Append(@, step),
        !.current_step = IF StepIndex(step) >= @ THEN StepIndex(step) + 1 ELSE @ ]

\* completeStep on a store: load, update, save (callers have checked existence)
CompleteStep(store, sid, step) ==
    SaveSession(store, sid, CompletedStep(store[sid], step))

\* getNextStep: the advertised next step, or null
GetNextStep(s) ==
    IF s.current_step >= Len(WorkflowSteps)
    THEN None
    ELSE Some(WorkflowSteps[s.current_step + 1])

Latest(store) == CHOOSE x \in DOMAIN store : \A y \in DOMAIN store : y <= x

GetActiveSessionLatest(store, ptr) ==
    IF DOMAIN store = {} THEN 0 ELSE Latest(store)

\* getActiveSession: the id of the session it returns, 0 for null (the
\* pointer file is absent, or names a session whose file is gone)
GetActiveSession(store, ptr) ==
    IF ptr # 0 /\ ptr \in DOMAIN store THEN ptr ELSE 0

(***************************************************************************)
(* The CSV files under ProblemData as a handler finds them when it reads:  *)
(* whether drivers.csv and orders.csv exist, the valid rows of each file,  *)
(* whether validation found a critical error, what the constraint          *)
(* detection sees, and whether transformToOmeletRequest accepts the rows.  *)
(***************************************************************************)
DataSmall ==
    [ files |-> TRUE, drivers |-> 1, orders |-> 2, depots |-> 1,
      isValid |-> TRUE, buildable |-> TRUE,
      capacity |-> TRUE, time_windows |-> FALSE, working_hours |-> FALSE ]

DataLarge == [ DataSmall EXCEPT !.drivers = 6, !.orders = 51 ]

DataInvalid == [ DataSmall EXCEPT !.isValid = FALSE, !.buildable = FALSE ]

DataMissing ==
    [ DataSmall EXCEPT !.files = FALSE, !.drivers = 0, !.orders = 0, !.depots = 0 ]

(***************************************************************************)
(* A flag that may be absent: "true", "false" or "undefined".              *)
(***************************************************************************)
Tri(b) == IF b THEN "true" ELSE "false"

NoFlags ==
    [ vehicle_capacity |-> "undefined", time_windows |-> "undefined",
      working_hours |-> "undefined", max_vehicles |-> 0 ]

\* session.config = {}
EmptyConfig ==
    [ objective |-> "", constraints |-> None, constraint_overrides |-> None,
      advanced_options |-> None, user_overrides |-> None ]

ConfigOf(s) == IF IsSome(s.config) THEN Get(s.config) ELSE EmptyConfig

\* (session.auto_detected_constraints || {})[f]
AutoDetected(s, f) ==
    IF IsSome(s.auto_detected_constraints)
    THEN Tri(Get(s.auto_detected_constraints)[f])
    ELSE "undefined"

UpdatedDataStatusLosingResult(s, data) ==
    [ NewSession EXCEPT
        !.current_step = s.current_step, !.steps_completed = s.steps_completed,
        !.data_status =
          [ drivers_loaded |-> data.drivers > 0, orders_loaded |-> data.orders > 0,
            depots_loaded |-> data.depots > 0, validation_passed |-> data.isValid ] ]

\* updateSessionDataStatus
UpdatedDataStatus(s, data) ==
    [ s EXCEPT !.data_status =
        [ drivers_loaded |-> data.drivers > 0, orders_loaded |-> data.orders > 0,
          depots_loaded |-> data.depots > 0, validation_passed |-> data.isValid ] ]

\* what a handler did: the store it leaves and the kind of text it returned
Did(store, status) == [ store |-> store, status |-> status ]

\* handlePrepareData
PrepareData(store, sid, data) ==
    IF sid \notin DOMAIN store THEN Did(store, "session_not_found")
    ELSE IF ~data.files THEN Did(store, "files_missing")
    ELSE LET updated == SaveSession(store, sid, UpdatedDataStatus(store[sid], data))
         IN  IF data.isValid
             THEN Did(CompleteStep(updated, sid, "prepare_data"), "ok")
             ELSE Did(updated, "invalid_data")

\* handleDataAnalysisStep
DataAnalysisStep(store, sid, data) ==
    IF ~data.files THEN Did(store, "error_message")
    ELSE Did(SaveSession(store, sid,
                [ store[sid] EXCEPT !.auto_detected_constraints =
                    Some([ vehicle_capacity |-> data.capacity,
                           time_windows |-> data.time_windows,
                           working_hours |-> data.working_hours ]) ]),
             "analyzed")

\* handleObjectiveSelectionStep
ObjectiveSelectionStep(store, sid, objective) ==
    IF objective = "" THEN Did(store, "info")
    ELSE Did(SaveSession(store, sid,
                [ store[sid] EXCEPT !.config =
                    Some([ ConfigOf(store[sid]) EXCEPT !.objective = objective ]) ]),
             "objective_set")

\* finalConstraints of handleConstraintConfigurationStep
FinalConstraints(s, overrides) ==
    [ vehicle_capacity |->
        IF overrides.vehicle_capacity # "undefined" THEN overrides.vehicle_capacity
        ELSE AutoDetected(s, "vehicle_capacity"),
      time_windows |->
        IF overrides.time_windows # "undefined" THEN overrides.time_windows
        ELSE AutoDetected(s, "time_windows"),
      working_hours |->
        IF overrides.working_hours # "undefined" THEN overrides.working_hours
        ELSE AutoDetected(s, "working_hours"),
      max_vehicles |-> overrides.max_vehicles ]

\* handleConstraintConfigurationStep
ConstraintConfigurationStep(store, sid, overrides) ==
    IF overrides = None THEN Did(store, "info")
    ELSE Did(SaveSession(store, sid,
                [ store[sid] EXCEPT !.config =
                    Some([ ConfigOf(store[sid]) EXCEPT
                            !.constraints = Some(FinalConstraints(store[sid], Get(overrides))),
                            !.constraint_overrides = overrides ]) ]),
             "constraints_set")

NoAdvanced ==
    [ optimization_intensity |-> "", distance_type |-> "", allow_unassigned |-> "undefined" ]

AdvancedOf(cfg) ==
    IF IsSome(cfg.advanced_options) THEN Get(cfg.advanced_options) ELSE NoAdvanced

\* handleDistanceMethodStep
DistanceMethodStep(store, sid, distanceType) ==
    IF distanceType = "" THEN Did(store, "info")
    ELSE Did(SaveSession(store, sid,
                [ store[sid] EXCEPT !.config =
                    Some([ ConfigOf(store[sid]) EXCEPT !.advanced_options =
                            Some([ AdvancedOf(ConfigOf(store[sid])) EXCEPT
                                    !.distance_type = distanceType ]) ]) ]),
             "distance_set")

\* handleAdvancedOptionsStep
AdvancedOptionsStep(store, sid, advancedOptions) ==
    IF advancedOptions = None THEN Did(store, "info")
    ELSE Did(SaveSession(store, sid,
                [ store[sid] EXCEPT !.config =
                    Some([ ConfigOf(store[sid]) EXCEPT !.advanced_options =
                            Some([ optimization_intensity |->
                                     IF Get(advancedOptions).optimization_intensity = ""
                                     THEN "balanced"
                                     ELSE Get(advancedOptions).optimization_intensity,
                                   distance_type |-> "",
                                   allow_unassigned |->
                                     IF Get(advancedOptions).allow_unassigned = "undefined"
                                     THEN "true"
                                     ELSE Get(advancedOptions).allow_unassigned ]) ]) ]),
             "advanced_set")

\* one constraint of handleConfirmationStep's finalConfig
ConfirmedFlag(s, f) ==
    IF IsSome(ConfigOf(s).constraints) /\ Get(ConfigOf(s).constraints)[f] # "undefined"
    THEN Get(ConfigOf(s).constraints)[f]
    ELSE Tri(AutoDetected(s, f) = "true")

\* finalConfig of handleConfirmationStep
FinalConfig(s) ==
    [ objective |-> ConfigOf(s).objective,
      constraints |->
        Some([ vehicle_capacity |-> ConfirmedFlag(s, "vehicle_capacity"),
               time_windows |-> ConfirmedFlag(s, "time_windows"),
               working_hours |-> ConfirmedFlag(s, "working_hours"),
               max_vehicles |->
                 IF IsSome(ConfigOf(s).constraints)
                 THEN Get(ConfigOf(s).constraints).max_vehicles ELSE 0 ]),
      constraint_overrides |-> None,
      advanced_options |->
        Some([ optimization_intensity |->
                 IF AdvancedOf(ConfigOf(s)).optimization_intensity = "" THEN "balanced"
                 ELSE AdvancedOf(ConfigOf(s)).optimization_intensity,
               distance_type |->
                 IF AdvancedOf(ConfigOf(s)).distance_type = "" THEN "euclidean"
                 ELSE AdvancedOf(ConfigOf(s)).distance_type,
               allow_unassigned |->
                 IF AdvancedOf(ConfigOf(s)).allow_unassigned = "undefined" THEN "true"
                 ELSE AdvancedOf(ConfigOf(s)).allow_unassigned ]),
      user_overrides |->
        IF IsSome(ConfigOf(s).constraint_overrides)
        THEN ConfigOf(s).constraint_overrides ELSE Some(NoFlags) ]

\* handleConfirmationStep
ConfirmationStep(store, sid) ==
    IF ConfigOf(store[sid]).objective = "" THEN Did(store, "objective_missing")
    ELSE Did(CompleteStep(SaveSession(store, sid,
                            [ store[sid] EXCEPT !.config = Some(FinalConfig(store[sid])) ]),
                          sid, "configure_problem"),
             "ok")

\* the arguments of a configure_problem call
ConfigureArgs(step, objective, overrides, distanceType, advancedOptions) ==
    [ step |-> step, objective |-> objective, constraint_overrides |-> overrides,
      distance_type |-> distanceType, advanced_options |-> advancedOptions ]

\* handleConfigureProblem: works on the active session
HandleConfigureProblem(store, ptr, args, data) ==
    LET sid == GetActiveSession(store, ptr) IN
    IF sid = 0 THEN Did(store, "no_active_project")
    ELSE CASE args.step \in {"", "start", "analyze"} -> DataAnalysisStep(store, sid, data)
           [] args.step = "objective" -> ObjectiveSelectionStep(store, sid, args.objective)
           [] args.step = "constraints" ->
                ConstraintConfigurationStep(store, sid, args.constraint_overrides)
           [] args.step = "distance" -> DistanceMethodStep(store, sid, args.distance_type)
           [] args.step = "advanced" -> AdvancedOptionsStep(store, sid, args.advanced_options)
           [] args.step = "confirm" -> ConfirmationStep(store, sid)
           [] OTHER -> Did(store, "unknown_step")

\* handleAnalyzeResults completing its step without looking for a result
AnalyzeResultsUnchecked(store, sid) ==
    IF sid \notin DOMAIN store THEN Did(store, "session_not_found")
    ELSE Did(CompleteStep(store, sid, "analyze_results"), "ok")

\* handleAnalyzeResults
AnalyzeResults(store, sid) ==
    IF sid \notin DOMAIN store THEN Did(store, "session_not_found")
    ELSE IF store[sid].last_result = None THEN Did(store, "no_result")
    ELSE Did(CompleteStep(store, sid, "analyze_results"), "ok")

\* handleExportResults
ExportResults(store, sid) ==
    IF sid \notin DOMAIN store THEN Did(store, "session_not_found")
    ELSE IF store[sid].last_result = None THEN Did(store, "no_result")
    ELSE Did(CompleteStep(store, sid, "export_results"), "ok")

\* performPreflightChecks: canProceed
PreflightPasses(s) ==
    /\ s.data_status.validation_passed
    /\ IsSome(s.config)
    /\ s.data_status.drivers_loaded /\ s.data_status.orders_loaded

(***************************************************************************)
(* refine_solution's helpers.  The objective analyzeFeedback reads out of  *)
(* the feedback text is "completion", "cost", "time", "utilization",       *)
(* "priority" or "general".                                                *)
(***************************************************************************)
RECURSIVE SumVisits(_, _)
SumVisits(routes, n) ==
    IF n = 0 THEN 0 ELSE Len(routes[n].visits) + SumVisits(routes, n - 1)

\* calculateCompletedOrders
CalculateCompletedOrders(result) == SumVisits(result.routes, Len(result.routes))

\* getMetricValue, doubled so that total_distance * 0.5 stays an integer
MetricValue(result, objective) ==
    CASE objective = "completion" -> 2 * CalculateCompletedOrders(result)
      [] objective = "cost" ->
            IF result.total_cost # 0 THEN 2 * result.total_cost ELSE result.total_distance
      [] objective = "time" -> 2 * result.total_duration
      [] OTHER -> 2 * result.total_distance

\* evaluateImprovement(...).improved; for "time" it compares total_time,
\* a field no result has
Improved(old, new, objective) ==
    CASE objective = "completion" ->
            CalculateCompletedOrders(new) > CalculateCompletedOrders(old)
      [] objective = "cost" -> MetricValue(new, "cost") < MetricValue(old, "cost")
      [] objective = "time" -> FALSE
      [] OTHER -> new.total_distance < old.total_distance

Abs(x) == IF x < 0 THEN -x ELSE x

\* improvementPercent < limit; NaN and Infinity (old value 0) are not below it
PercentBelow(old, new, objective, limit) ==
    /\ MetricValue(old, objective) # 0
    /\ Abs(MetricValue(new, objective) - MetricValue(old, objective)) * 100
          < limit * MetricValue(old, objective)

\* evaluateImprovement(...).converged
Converged(old, new, objective) == PercentBelow(old, new, objective, 5)

\* adjustConfiguration: the adjusted copy, or None where it throws a TypeError
\* on a configuration without constraints or advanced_options
AdjustConfiguration(config, objective, preserveConstraints) ==
    LET cfg == IF IsSome(config) THEN Get(config) ELSE EmptyConfig IN
    CASE objective = "completion" ->
            IF (~preserveConstraints /\ cfg.constraints = None) \/ cfg.advanced_options = None
            THEN None
            ELSE Some([ cfg EXCEPT
                    !.constraints =
                        IF preserveConstraints THEN @
                        ELSE Some([ Get(@) EXCEPT !.vehicle_capacity = "false",
                                                  !.time_windows = "false" ]),
                    !.advanced_options =
                        Some([ Get(@) EXCEPT !.optimization_intensity = "thorough" ]) ])
      [] objective = "cost" -> Some([ cfg EXCEPT !.objective = "cost" ])
      [] objective = "time" -> Some([ cfg EXCEPT !.objective = "time" ])
      [] objective = "utilization" ->
            IF cfg.advanced_options = None THEN None
            ELSE Some([ cfg EXCEPT !.advanced_options =
                        Some([ Get(@) EXCEPT !.optimization_intensity = "balanced" ]) ])
      [] OTHER -> Some(cfg)

\* finetuneConfig: the configuration for the next iteration, or None where it
\* throws on a configuration without advanced_options
FinetuneConfig(cfg, old, new, objective) ==
    IF ~PercentBelow(old, new, objective, 2) THEN Some(cfg)
    ELSE IF cfg.advanced_options = None THEN None
    ELSE IF Get(cfg.advanced_options).optimization_intensity = "balanced"
         THEN Some([ cfg EXCEPT !.advanced_options =
                        Some([ Get(@) EXCEPT !.optimization_intensity = "thorough" ]) ])
         ELSE Some(cfg)

(***************************************************************************)
(* The solver's replies.  An OmeletResponse carries a status, the routes   *)
(* (each a name list with the depot at both ends), the unassigned visit    *)
(* names and the solution-level costs.                                     *)
(***************************************************************************)
RawRoute(vehicle, names, dist, dur, cost) ==
    [ vehicle_name |-> vehicle, route_name |-> names,
      distance_cost |-> dist, duration_cost |-> dur, objective_cost |-> cost ]

RawResponse(status, routes, unassigned, dist, dur, cost) ==
    [ status |-> status, routes |-> routes,
      unassigned_visit_names |-> unassigned,
      total_distance_cost |-> dist, total_duration_cost |-> dur,
      total_objective_cost |-> cost ]

RawOptimal ==
    RawResponse("optimal",
        << RawRoute("V1", <<"depot", "A", "B", "depot">>, 1000, 600, 1000) >>,
        <<>>, 1000, 600, 1000)

RawBetter ==
    RawResponse("feasible",
        << RawRoute("V1", <<"depot", "A", "depot">>, 300, 200, 300),
           RawRoute("V2", <<"depot", "B", "C", "depot">>, 400, 300, 400) >>,
        <<>>, 700, 500, 700)

RawUnassigned ==
    RawResponse("feasible_with_unassigned_visits",
        << RawRoute("V1", <<"depot", "A", "depot">>, 990, 590, 990) >>,
        <<"B">>, 990, 590, 990)

RawInfeasible ==
    RawResponse("infeasible", <<>>, <<"A", "B">>, 0, 0, 0)

RawResponses == { RawOptimal, RawBetter, RawUnassigned, RawInfeasible }

\* route_name.slice(1): the leading depot entry alone is dropped
SliceInnerKeepLast(names) == SubSeq(names, 2, Len(names))

\* route_name.slice(1, -1)
SliceInner(names) == SubSeq(names, 2, Len(names) - 1)

\* transformOmeletResponse
TransformOmeletResponse(resp) ==
    [ status |-> resp.status,
      routes |->
        [ i \in 1..Len(resp.routes) |->
            [ vehicle_name |-> resp.routes[i].vehicle_name,
              visits |-> SliceInner(resp.routes[i].route_name),
              total_distance |-> resp.routes[i].distance_cost,
              total_duration |-> resp.routes[i].duration_cost,
              total_cost |-> resp.routes[i].objective_cost ] ],
      unassigned_visits |-> resp.unassigned_visit_names,
      total_distance |-> resp.total_distance_cost,
      total_duration |-> resp.total_duration_cost,
      total_cost |-> resp.total_objective_cost ]

(***************************************************************************)
(* Errors.  A TMSError carries a code and a list of suggestions (kept as   *)
(* its length); an AxiosError carries the HTTP status of the response, 0   *)
(* when the request got no response.                                       *)
(***************************************************************************)
TMSError(code, nSuggestions) ==
    [ type |-> "TMSError", code |-> code, suggestions |-> nSuggestions, status |-> 0 ]

AxiosError(status) ==
    [ type |-> "AxiosError", code |-> "", suggestions |-> 0, status |-> status ]

\* error.response?.status of a request that got no response
NoResponse == 0

\* the statuses handleApiError's switch names
MappedStatuses == { 400, 401, 403, 404, 405, 406, 422, 429, 500 }

\* statuses an HTTP error response can carry in the model
ErrorStatuses == MappedStatuses \cup { 502, 503 }

\* handleApiError: the TMSError it throws
HandleApiError(error) ==
    IF error.type = "TMSError" THEN error
    ELSE IF error.type = "AxiosError" THEN
        CASE error.status = 400 -> TMSError("BAD_REQUEST", 3)
          [] error.status = 401 -> TMSError("UNAUTHORIZED", 3)
          [] error.status = 403 -> TMSError("FORBIDDEN", 2)
          [] error.status = 404 -> TMSError("NOT_FOUND", 2)
          [] error.status = 405 -> TMSError("METHOD_NOT_ALLOWED", 1)
          [] error.status = 406 -> TMSError("NOT_ACCEPTABLE", 1)
          [] error.status = 422 -> TMSError("UNPROCESSABLE_ENTITY", 2)
          [] error.status = 429 -> TMSError("RATE_LIMIT", 2)
          [] error.status = 500 -> TMSError("SERVER_ERROR", 2)
          [] OTHER -> TMSError("HTTP_ERROR", 2)
    ELSE TMSError("UNKNOWN_ERROR", 0)

(***************************************************************************)
(* What a request to the solver comes back with: a response (its HTTP      *)
(* status and body) or a rejected promise (an error).                      *)
(***************************************************************************)
HttpResponse(status, body) == [ kind |-> "response", http |-> status, body |-> body ]
HttpFailure(error) == [ kind |-> "failure", http |-> 0, body |-> error ]

Ok(result) == [ ok |-> TRUE, result |-> Some(result), error |-> None ]
Thrown(error) == [ ok |-> FALSE, result |-> None, error |-> Some(error) ]

TransportFailures ==
    { HttpFailure(AxiosError(s)) : s \in ErrorStatuses \cup {NoResponse} }

\* replies to POST /api/vrp
SyncReplies ==
    { HttpResponse(200, r) : r \in RawResponses } \cup TransportFailures

\* what optimizeRoutes' try block throws into its catch, if anything
OptimizeRoutesCaught(reply) ==
    IF reply.kind = "failure" THEN Some(reply.body)
    ELSE IF reply.body.status = "infeasible"
         THEN Some(TMSError("OPTIMIZATION_FAILED", 4))
         ELSE None

OptimizeRoutesNoCheck(reply) ==
    IF reply.kind = "response"
    THEN Ok(TransformOmeletResponse(reply.body))
    ELSE Thrown(HandleApiError(reply.body))

\* optimizeRoutes, given the reply to its one POST /api/vrp
OptimizeRoutes(reply) ==
    IF IsSome(OptimizeRoutesCaught(reply))
    THEN Thrown(HandleApiError(Get(OptimizeRoutesCaught(reply))))
    ELSE Ok(TransformOmeletResponse(reply.body))

\* replies to POST /api/vrp-long: 201 with a job id, another 2xx, or a failure
LongReplies ==
    { HttpResponse(201, [job_id |-> "job-1"]), HttpResponse(200, [job_id |-> "job-1"]) } \cup TransportFailures

\* what optimizeRoutesLong's try block throws into its catch, if anything
OptimizeRoutesLongCaught(reply) ==
    IF reply.kind = "failure" THEN Some(reply.body)
    ELSE IF reply.http # 201
         THEN Some(TMSError("LONG_REQUEST_FAILED", 0))
         ELSE None

\* optimizeRoutesLong, given the reply to its one POST /api/vrp-long: the job
\* id (as a result) or the error thrown
OptimizeRoutesLong(reply) ==
    IF IsSome(OptimizeRoutesLongCaught(reply))
    THEN Thrown(HandleApiError(Get(OptimizeRoutesLongCaught(reply))))
    ELSE Ok(reply.body)

\* bodies of GET /api/check-result/<job>: status and optional result
CheckBody(status, result) == [ status |-> status, result |-> result ]

CheckReplies ==
    { HttpResponse(200, CheckBody("processing", None)),
      HttpResponse(200, CheckBody("failed", None)),
      HttpResponse(200, CheckBody("completed", None)),
      HttpResponse(200, CheckBody("queued", None)) }
    \cup { HttpResponse(200, CheckBody("completed", Some(r))) : r \in RawResponses }
    \cup TransportFailures

\* checkResult, given the reply to its GET
CheckResult(reply) ==
    IF reply.kind = "response"
    THEN Ok(reply.body)
    ELSE Thrown(HandleApiError(reply.body))

PollInterval == 5000
DefaultMaxWait == 300000

\* selectEndpoint's thresholds (config/api-config.ts)
AsyncVisits == 100
AsyncVehicles == 20
\* the solve handler's own thresholds
LargeVisits == 50
LargeVehicles == 5

\* selectEndpoint: TRUE for /api/vrp-long
SelectEndpointLong(orderCount, vehicleCount) ==
    orderCount >= AsyncVisits \/ vehicleCount >= AsyncVehicles

\* handleSolveOptimization's isLargeProblem
IsLargeProblem(visits, vehicles) ==
    visits > LargeVisits \/ vehicles > LargeVehicles

(***************************************************************************)
(* The OmeletAPIClient call in progress.                                   *)
(*   pc        call_sync / call_long : the method is about to post         *)
(*             await_sync / await_long : its POST is in flight             *)
(*             submitted : optimizeRoutesLong returned the job id          *)
(*             wait : waitForCompletion is at the top of its loop          *)
(*             await_check : checkResult's GET is in flight                *)
(*             done : the call returned or threw (outcome)                 *)
(*   posts, polls : requests sent; replies : the poll statuses received;   *)
(*   reply : the last reply; thrown : what handleApiError was given.       *)
(***************************************************************************)
ApiIdle ==
    [ pc |-> "idle", visits |-> 0, vehicles |-> 0, endpoint |-> "",
      posts |-> 0, polls |-> 0, elapsed |-> 0, maxWait |-> 0,
      waited |-> FALSE, replies |-> <<>>, reply |-> None, thrown |-> None,
      outcome |-> None ]

SyncEndpoint == "/api/vrp"
LongEndpoint == "/api/vrp-long"

\* handleSolveOptimization picks the client method for a request of this size
StartCall(visits, vehicles) ==
    [ ApiIdle EXCEPT
        !.pc = IF IsLargeProblem(visits, vehicles) THEN "call_long" ELSE "call_sync",
        !.visits = visits, !.vehicles = vehicles ]

\* refine's loop always calls optimizeRoutes
StartSyncCall(visits, vehicles) ==
    [ ApiIdle EXCEPT !.pc = "call_sync", !.visits = visits, !.vehicles = vehicles ]

\* what checkResult's try block throws into its catch, if anything
ThrownBy(reply) == IF reply.kind = "failure" THEN Some(reply.body) ELSE None

\* the client after the reply to POST /api/vrp
AfterSyncReplyRetry(a, reply) ==
    IF OptimizeRoutes(reply).ok
    THEN [ a EXCEPT !.pc = "done", !.reply = Some(reply),
                    !.outcome = Some(OptimizeRoutes(reply)) ]
    ELSE [ a EXCEPT !.pc = "call_sync" ]

AfterSyncReply(a, reply) ==
    [ a EXCEPT !.pc = "done", !.reply = Some(reply),
               !.thrown = OptimizeRoutesCaught(reply),
               !.outcome = Some(OptimizeRoutes(reply)) ]

\* the client after the reply to POST /api/vrp-long
AfterLongReply(a, reply) ==
    [ a EXCEPT !.pc = IF OptimizeRoutesLong(reply).ok THEN "submitted" ELSE "done",
               !.reply = Some(reply), !.thrown = OptimizeRoutesLongCaught(reply),
               !.outcome = IF OptimizeRoutesLong(reply).ok THEN None
                           ELSE Some(OptimizeRoutesLong(reply)) ]

\* the status a poll reply is logged with
ReplyStatus(reply) == IF reply.kind = "response" THEN reply.body.status ELSE "error"

AfterCheckReplyEager(a, reply, latency) ==
    [ a EXCEPT !.pc = "done", !.elapsed = @ + latency,
               !.replies = Append(@, ReplyStatus(reply)),
               !.reply = Some(reply), !.thrown = ThrownBy(reply),
               !.outcome = Some(Thrown(TMSError("TIMEOUT", 0))) ]

\* waitForCompletion's loop body after checkResult's reply, which took
\* `latency' to arrive
AfterCheckReply(a, reply, latency) ==
    LET r == CheckResult(reply)
        b == [ a EXCEPT !.elapsed = @ + latency,
                        !.replies = Append(@, ReplyStatus(reply)),
                        !.reply = Some(reply), !.thrown = ThrownBy(reply) ]
    IN  IF ~r.ok THEN [ b EXCEPT !.pc = "done", !.outcome = Some(r) ]
        ELSE LET body == Get(r.result) IN
             CASE body.status = "completed" ->
                    IF IsSome(body.result)
                    THEN [ b EXCEPT !.pc = "done",
                             !.outcome = Some(Ok(TransformOmeletResponse(Get(body.result)))) ]
                    ELSE [ b EXCEPT !.pc = "done",
                             !.outcome = Some(Thrown(TMSError("NO_RESULT", 0))) ]
               [] body.status = "failed" ->
                    [ b EXCEPT !.pc = "done",
                        !.outcome = Some(Thrown(TMSError("JOB_FAILED", 0))) ]
               [] body.status = "processing" ->
                    [ b EXCEPT !.pc = "wait", !.elapsed = @ + PollInterval ]
               [] OTHER ->
                    [ b EXCEPT !.pc = "done",
                        !.outcome = Some(Thrown(TMSError("UNKNOWN_STATUS", 0))) ]

\* optimizeRoutes / optimizeRoutesLong send their one POST
ClientPost ==
    /\ api.pc \in {"call_sync", "call_long"}
    /\ api' = [ api EXCEPT
                  !.pc = IF api.pc = "call_sync" THEN "await_sync" ELSE "await_long",
                  !.endpoint = IF api.pc = "call_sync" THEN SyncEndpoint ELSE LongEndpoint,
                  !.posts = @ + 1 ]
    /\ UNCHANGED <<sessions, nextId, activeSessionId, call, ret, progress>>

ClientSyncReply(reply) ==
    /\ api.pc = "await_sync"
    /\ api' = AfterSyncReply(api, reply)
    /\ UNCHANGED <<sessions, nextId, activeSessionId, call, ret, progress>>

ClientLongReply(reply) ==
    /\ api.pc = "await_long"
    /\ api' = AfterLongReply(api, reply)
    /\ UNCHANGED <<sessions, nextId, activeSessionId, call, ret, progress>>

\* waitForCompletion(jobId, maxWaitTime) is entered
ClientWaitStart(maxWaitTime) ==
    /\ api.pc = "submitted"
    /\ api' = [ api EXCEPT !.pc = "wait", !.waited = TRUE, !.elapsed = 0,
                           !.maxWait = maxWaitTime ]
    /\ UNCHANGED <<sessions, nextId, activeSessionId, call, ret, progress>>

\* while (Date.now() - startTime < maxWaitTime): checkResult sends its GET
ClientCheck ==
    /\ api.pc = "wait"
    /\ api.elapsed < api.maxWait
    /\ api' = [ api EXCEPT !.pc = "await_check", !.polls = @ + 1 ]
    /\ UNCHANGED <<sessions, nextId, activeSessionId, call, ret, progress>>

ClientCheckReply(reply, latency) ==
    /\ api.pc = "await_check"
    /\ api' = AfterCheckReply(api, reply, latency)
    /\ UNCHANGED <<sessions, nextId, activeSessionId, call, ret, progress>>

\* the loop condition fails: throw TIMEOUT
ClientTimeout ==
    /\ api.pc = "wait"
    /\ ~(api.elapsed < api.maxWait)
    /\ api' = [ api EXCEPT !.pc = "done",
                           !.outcome = Some(Thrown(TMSError("TIMEOUT", 0))) ]
    /\ UNCHANGED <<sessions, nextId, activeSessionId, call, ret, progress>>

(***************************************************************************)
(* The client on its own: one solve-path call for a request of any of the  *)
(* sizes around the thresholds, answered in every way the solver can.      *)
(***************************************************************************)
VisitCounts == { 1, 50, 51, 99, 100 }
VehicleCounts == { 1, 5, 6, 19, 20 }
MaxWaits == { 0, 5000, 13000 }
Latencies == { 1000, 5000 }

CallIdle ==
    [ tool |-> "none", sid |-> 0, pc |-> "idle", iteration |-> 0,
      max_iterations |-> 0, submissions |-> 0, objective |-> "",
      session |-> None, config |-> None, best |-> None ]

RetNone == [ tool |-> "none", sid |-> 0, status |-> "none", step |-> "" ]

Returned(tool, sid, status) ==
    [ tool |-> tool, sid |-> sid, status |-> status, step |-> "" ]

NoSessions == [ x \in {} |-> NewSession ]

InitClient ==
    /\ sessions = NoSessions
    /\ nextId = 1
    /\ activeSessionId = 0
    /\ call = CallIdle
    /\ ret = RetNone
    /\ api = ApiIdle
    /\ progress = [ x \in {} |-> 0 ]

ClientStart(visits, vehicles) ==
    /\ api.pc = "idle"
    /\ api' = StartCall(visits, vehicles)
    /\ UNCHANGED <<sessions, nextId, activeSessionId, call, ret, progress>>

NextClient ==
    \/ \E v \in VisitCounts, k \in VehicleCounts : ClientStart(v, k)
    \/ ClientPost
    \/ \E reply \in SyncReplies : ClientSyncReply(reply)
    \/ \E reply \in LongReplies : ClientLongReply(reply)
    \/ \E w \in MaxWaits : ClientWaitStart(w)
    \/ ClientCheck
    \/ \E reply \in CheckReplies, l \in Latencies : ClientCheckReply(reply, l)
    \/ ClientTimeout

SpecClient == InitClient /\ [][NextClient]_vars

\* every request gets its reply and the event loop runs every continuation
SpecClientLive == InitClient /\ [][NextClient]_vars /\ WF_vars(NextClient)

(***************************************************************************)
(* Properties of the client.                                               *)
(***************************************************************************)
Outcome == Get(api.outcome)
OutcomeError == Get(Outcome.error)
OutcomeResult == Get(Outcome.result)
LastReply == Get(api.reply)

\* result is the internal form of the solver response body: same status,
\* costs and unassigned names, every route without its two depot entries
IsNormalizedOf(result, body) ==
    /\ result.status = body.status
    /\ result.total_distance = body.total_distance_cost
    /\ result.total_duration = body.total_duration_cost
    /\ result.total_cost = body.total_objective_cost
    /\ result.unassigned_visits = body.unassigned_visit_names
    /\ Len(result.routes) = Len(body.routes)
    /\ \A i \in 1..Len(body.routes) :
          /\ result.routes[i].vehicle_name = body.routes[i].vehicle_name
          /\ Len(result.routes[i].visits) = Len(body.routes[i].route_name) - 2
          /\ \A j \in 1..Len(result.routes[i].visits) :
                result.routes[i].visits[j] = body.routes[i].route_name[j + 1]

\* C6: the solve path posts to the asynchronous endpoint exactly when the
\* request has at least 100 visits or at least 20 vehicles, and to the
\* synchronous endpoint otherwise.
C6_EndpointBySize ==
    api.endpoint # "" =>
        (api.endpoint = LongEndpoint <=> SelectEndpointLong(api.visits, api.vehicles))

AllProcessing == \A i \in 1..Len(api.replies) : api.replies[i] = "processing"

NoPollAfterTerminal ==
    /\ \A i \in 1..(Len(api.replies) - 1) : api.replies[i] = "processing"
    /\ api.polls = Len(api.replies) + (IF api.pc = "await_check" THEN 1 ELSE 0)

WaitDone == api.waited /\ api.pc = "done"

LastStatus == api.replies[Len(api.replies)]

\* the three outcomes the wait is said to have
WaitCompleted ==
    /\ api.replies # <<>> /\ LastStatus = "completed"
    /\ Outcome.ok
    /\ IsSome(LastReply.body.result)
    /\ IsNormalizedOf(OutcomeResult, Get(LastReply.body.result))

WaitFailed ==
    /\ api.replies # <<>> /\ LastStatus = "failed"
    /\ ~Outcome.ok /\ OutcomeError.code = "JOB_FAILED"

WaitTimedOut ==
    /\ AllProcessing
    /\ api.elapsed >= api.maxWait
    /\ ~Outcome.ok /\ OutcomeError.code = "TIMEOUT"

\* the endings the claim does not name
WaitNoResult ==
    /\ api.replies # <<>> /\ LastStatus = "completed"
    /\ LastReply.body.result = None
    /\ ~Outcome.ok /\ OutcomeError.code = "NO_RESULT"

WaitUnknownStatus ==
    /\ api.replies # <<>>
    /\ LastStatus \notin {"completed", "failed", "processing", "error"}
    /\ ~Outcome.ok /\ OutcomeError.code = "UNKNOWN_STATUS"

WaitTransportError ==
    /\ api.replies # <<>> /\ LastStatus = "error"
    /\ ~Outcome.ok /\ OutcomeError = HandleApiError(LastReply.body)

StatusResponsesOnly ==
    \A i \in 1..Len(api.replies) :
        api.replies[i] \in {"processing", "completed", "failed"}

\* C7 as stated: over status responses, the wait ends in the normalized
\* result at the first 'completed', a job-failed error at the first 'failed',
\* or a timeout after the maximum wait with only 'processing' seen; and no
\* poll follows a terminal response.
C7_ThreeOutcomes ==
    (api.waited /\ StatusResponsesOnly) =>
        /\ NoPollAfterTerminal
        /\ api.pc = "done" => (WaitCompleted \/ WaitFailed \/ WaitTimedOut)

WaitEndsRight ==
    api.waited =>
        /\ NoPollAfterTerminal
        /\ api.pc = "done" =>
              \/ WaitCompleted \/ WaitFailed \/ WaitTimedOut
              \/ WaitNoResult \/ WaitUnknownStatus \/ WaitTransportError

\* C7 (amended): waitForCompletion always terminates, in exactly one of:
\* the normalized result at the first 'completed' response that carries a
\* result, a no-result error at a 'completed' response without one, a
\* job-failed error at the first 'failed' response, an unknown-status error
\* at any other status, the mapped transport error of a failed poll, or a
\* timeout error once the maximum wait has elapsed with only 'processing'
\* seen; 'processing' never ends the wait and no poll follows a terminal
\* response.
C7_WaitOutcome == [](WaitEndsRight) /\ (api.waited ~> (api.pc = "done"))

\* C7 witness: two 'processing' responses, then a 'completed' one with a result
C7_Witness ==
    /\ WaitDone /\ WaitCompleted
    /\ Len(api.replies) = 3

\* C8: optimizeRoutes throws OPTIMIZATION_FAILED with suggestions when the
\* solver's status is 'infeasible' and returns the normalized result for
\* every other status.
C8_SyncOutcome ==
    (api.pc = "done" /\ api.endpoint = SyncEndpoint /\ LastReply.kind = "response") =>
        IF LastReply.body.status = "infeasible"
        THEN /\ ~Outcome.ok
             /\ OutcomeError.type = "TMSError"
             /\ OutcomeError.code = "OPTIMIZATION_FAILED"
             /\ OutcomeError.suggestions > 0
        ELSE /\ Outcome.ok
             /\ IsNormalizedOf(OutcomeResult, LastReply.body)

C8_Witness ==
    /\ api.pc = "done" /\ api.endpoint = SyncEndpoint
    /\ LastReply.kind = "response" /\ LastReply.body.status = "infeasible"
    /\ ~Outcome.ok

KindOf(status) == HandleApiError(AxiosError(status)).code

\* the kind of a status handleApiError does not name
UnknownHttpKind == KindOf(CHOOSE s \in ErrorStatuses \ MappedStatuses : TRUE)

\* C10: handleApiError gives the nine statuses it names pairwise distinct
\* kinds, any other status the unknown-HTTP kind, each with suggestions; a
\* failure with no response gets a network kind of its own; a TMSError is
\* thrown again unchanged.
C10_ErrorKinds ==
    (api.pc = "done" /\ IsSome(api.thrown)) =>
        LET e == Get(api.thrown)
            r == OutcomeError
        IN  /\ ~Outcome.ok
            /\ e.type = "TMSError" => r = e
            /\ (e.type = "AxiosError" /\ e.status \in MappedStatuses) =>
                  /\ r.suggestions > 0
                  /\ r.code # UnknownHttpKind
                  /\ \A s \in MappedStatuses \ {e.status} : r.code # KindOf(s)
            /\ (e.type = "AxiosError" /\ e.status \notin MappedStatuses
                  /\ e.status # NoResponse) =>
                  /\ r.suggestions > 0
                  /\ r.code = UnknownHttpKind
            /\ (e.type = "AxiosError" /\ e.status = NoResponse) =>
                  /\ r.suggestions > 0
                  /\ \A s \in ErrorStatuses : r.code # KindOf(s)

(***************************************************************************)
(* SessionManager on its own.                                              *)
(***************************************************************************)
Max(a, b) == IF a >= b THEN a ELSE b

Applied(tool, sid, status, step) ==
    [ tool |-> tool, sid |-> sid, status |-> status, step |-> step ]

\* createSession: a fresh session under a new id, which becomes the active one
CreateSession ==
    /\ sessions' = SaveSession(sessions, nextId, NewSession)
    /\ activeSessionId' = nextId
    /\ nextId' = nextId + 1
    /\ ret' = Returned("createSession", nextId, "ok")
    /\ UNCHANGED <<call, api, progress>>

\* completeStep(sessionId, step): throws when the session does not exist
CompleteStepCall(sid, step) ==
    /\ IF sid \in DOMAIN sessions
       THEN /\ sessions' = CompleteStep(sessions, sid, step)
            /\ ret' = Applied("completeStep", sid, "ok", step)
       ELSE /\ sessions' = sessions
            /\ ret' = Applied("completeStep", sid, "threw", step)
    /\ UNCHANGED <<nextId, activeSessionId, call, api, progress>>

\* One session (completeStep touches only the file of the session it is
\* given) and every order of step completions on it.
FirstSession == sessions = NoSessions /\ CreateSession

NextSteps ==
    \/ FirstSession
    \/ \E sid \in 1..2, step \in StepNames : CompleteStepCall(sid, step)

SpecSteps == InitClient /\ [][NextSteps]_vars

\* C1: completeStep(k) sets current_step to max(current_step, k+1), so
\* current_step never decreases over any sequence of completions.
C1_StepNeverDecreases ==
    [][ \A sid \in DOMAIN sessions \cap DOMAIN sessions' :
          /\ sessions'[sid].current_step >= sessions[sid].current_step
          /\ (ret'.tool = "completeStep" /\ ret'.sid = sid) =>
                sessions'[sid].current_step =
                    Max(sessions[sid].current_step, StepIndex(ret'.step) + 1) ]_vars

\* C1 witness: solve_optimization (index 3) completed at step 1, then
\* start_project (index 0) completed again, with current_step still 4
C1_Witness ==
    /\ 1 \in DOMAIN sessions
    /\ sessions[1].steps_completed = << "start_project", "solve_optimization" >>
    /\ ret = Applied("completeStep", 1, "ok", "start_project")
    /\ sessions[1].current_step = 4

(***************************************************************************)
(* The active-session pointer: sessions are created and deleted, the       *)
(* pointer is set and cleared, and configure_problem runs on whatever the  *)
(* pointer designates.                                                     *)
(***************************************************************************)
\* deleteSession: removes the file if it exists, leaves the pointer alone
DeleteSession(sid) ==
    /\ sessions' = RemoveSession(sessions, sid)
    /\ ret' = Returned("deleteSession", sid, Tri(sid \in DOMAIN sessions))
    /\ UNCHANGED <<nextId, activeSessionId, call, api, progress>>

\* setActiveSession: writes the pointer file
SetActiveSession(sid) ==
    /\ activeSessionId' = sid
    /\ ret' = Returned("setActiveSession", sid, "ok")
    /\ UNCHANGED <<sessions, nextId, call, api, progress>>

\* clearActiveSession: removes the pointer file
ClearActiveSession ==
    /\ activeSessionId' = 0
    /\ ret' = Returned("clearActiveSession", 0, "ok")
    /\ UNCHANGED <<sessions, nextId, call, api, progress>>

\* a configure_problem call, for the bookkeeping of the pointer
ConfigureProblem(args, data) ==
    /\ call.tool = "none"
    /\ sessions' = HandleConfigureProblem(sessions, activeSessionId, args, data).store
    /\ ret' = Returned("configure_problem",
                       GetActiveSession(sessions, activeSessionId),
                       HandleConfigureProblem(sessions, activeSessionId, args, data).status)
    /\ progress' =
         [ x \in DOMAIN progress |->
             IF /\ x = GetActiveSession(sessions, activeSessionId)
                /\ progress[x] = StepIndex("configure_problem")
                /\ HandleConfigureProblem(sessions, activeSessionId, args, data).status = "ok"
             THEN progress[x] + 1 ELSE progress[x] ]
    /\ UNCHANGED <<nextId, activeSessionId, call, api>>

ActiveConfigureArgs ==
    { ConfigureArgs("objective", "cost", None, "", None),
      ConfigureArgs("confirm", "", None, "", None) }

AnotherSession == nextId <= MaxSessions /\ CreateSession

NextActive ==
    \/ AnotherSession
    \/ \E sid \in 1..MaxSessions : DeleteSession(sid)
    \/ \E sid \in 1..MaxSessions : SetActiveSession(sid)
    \/ ClearActiveSession
    \/ \E args \in ActiveConfigureArgs : ConfigureProblem(args, DataSmall)

SpecActive == InitClient /\ [][NextActive]_vars

\* C3: there is one active pointer; createSession points it at the session it
\* creates; configure_problem works on exactly the session the pointer
\* designates and on no other, and reports that no project is active when
\* the pointer is absent or names a session that no longer exists.
C3_ActivePointer ==
    [][ /\ activeSessionId' \in 0..MaxSessions
        /\ ret'.tool = "createSession" =>
              /\ activeSessionId' = nextId
              /\ nextId \in DOMAIN sessions' /\ nextId \notin DOMAIN sessions
        /\ ret'.tool = "configure_problem" =>
              IF activeSessionId = 0 \/ activeSessionId \notin DOMAIN sessions
              THEN ret'.status = "no_active_project" /\ sessions' = sessions
              ELSE /\ ret'.status # "no_active_project"
                   /\ ret'.sid = activeSessionId
                   /\ DOMAIN sessions' = DOMAIN sessions
                   /\ \A sid \in DOMAIN sessions \ {activeSessionId} :
                         sessions'[sid] = sessions[sid] ]_vars

\* C3 witness: configure_problem reported no active project although other
\* sessions exist, because the pointer names a deleted session
C3_Witness ==
    /\ ret.tool = "configure_problem" /\ ret.status = "no_active_project"
    /\ activeSessionId # 0 /\ activeSessionId \notin DOMAIN sessions
    /\ DOMAIN sessions # {}

(***************************************************************************)
(* The server: the seven tools called one at a time, in any order, with    *)
(* any of the inputs below, against the session store.  A solve or refine  *)
(* call is in progress while the client talks to the solver.               *)
(***************************************************************************)
WorkflowData == { DataSmall, DataLarge, DataInvalid }
PrepareInputs == WorkflowData \cup { DataMissing }

WorkflowConfigureArgs ==
    { ConfigureArgs("start", "", None, "", None),
      ConfigureArgs("objective", "cost", None, "", None),
      ConfigureArgs("confirm", "", None, "", None) }

WorkflowSyncReplies ==
    { HttpResponse(200, r) : r \in RawResponses }
    \cup { HttpFailure(AxiosError(0)) }

WorkflowLongReplies ==
    { HttpResponse(201, [job_id |-> "job-1"]), HttpFailure(AxiosError(0)) }

WorkflowCheckReplies ==
    { HttpResponse(200, CheckBody("processing", None)),
      HttpResponse(200, CheckBody("failed", None)),
      HttpResponse(200, CheckBody("completed", Some(RawOptimal))),
      HttpResponse(200, CheckBody("completed", Some(RawInfeasible))) }

WorkflowLatencies == { 115000 }
\* refine_solution calls: the feedback's objective, max_iterations and
\* preserve_constraints
RefineArgs ==
    { [ objective |-> "completion", max_iterations |-> 2, preserve_constraints |-> FALSE ],
      [ objective |-> "completion", max_iterations |-> 1, preserve_constraints |-> TRUE ],
      [ objective |-> "cost", max_iterations |-> 1, preserve_constraints |-> FALSE ] }

\* the step counted for a session once the tool at that index has run
\* successfully and all tools before it have: the project was created, the
\* data validated, the configuration confirmed, a result stored, the
\* analysis reported, a better result stored, the files exported
Advance(sid, tool, ok) ==
    [ x \in DOMAIN progress |->
        IF x = sid /\ ok /\ progress[x] = StepIndex(tool) THEN progress[x] + 1
        ELSE progress[x] ]

Init == InitClient

\* handleStartProject
StartProject(force_new) ==
    /\ call.tool = "none"
    /\ IF DOMAIN sessions # {} /\ ~force_new
       THEN /\ ret' = Returned("start_project", 0, "listed")
            /\ UNCHANGED <<sessions, nextId, activeSessionId, progress>>
       ELSE /\ nextId <= MaxProjects
            /\ sessions' = CompleteStep(SaveSession(sessions, nextId, NewSession),
                                        nextId, "start_project")
            /\ activeSessionId' = nextId
            /\ nextId' = nextId + 1
            /\ progress' = [ x \in DOMAIN progress \cup {nextId} |->
                                IF x = nextId THEN 1 ELSE progress[x] ]
            /\ ret' = Returned("start_project", nextId, "ok")
    /\ UNCHANGED <<call, api>>

\* handlePrepareData
PrepareDataCall(sid, data) ==
    /\ call.tool = "none"
    /\ sessions' = PrepareData(sessions, sid, data).store
    /\ ret' = Returned("prepare_data", sid, PrepareData(sessions, sid, data).status)
    /\ progress' = Advance(sid, "prepare_data", PrepareData(sessions, sid, data).status = "ok")
    /\ UNCHANGED <<nextId, activeSessionId, call, api>>

\* handleSolveOptimization solving again whatever the session holds
KeepsEarlierResultNever(s, force_retry) == FALSE

\* handleSolveOptimization, step 3: the session has a result and the caller
\* did not force a retry
KeepsEarlierResult(s, force_retry) == IsSome(s.last_result) /\ ~force_retry

\* handleSolveOptimization up to the submission
SolveBegin(sid, force_retry, data) ==
    /\ call.tool = "none"
    /\ IF sid \notin DOMAIN sessions
       THEN /\ ret' = Returned("solve_optimization", sid, "session_not_found")
            /\ UNCHANGED <<call, api>>
       ELSE IF ~PreflightPasses(sessions[sid])
       THEN /\ ret' = Returned("solve_optimization", sid, "preflight_failed")
            /\ UNCHANGED <<call, api>>
       ELSE IF KeepsEarlierResult(sessions[sid], force_retry)
       THEN /\ ret' = Returned("solve_optimization", sid, "already_solved")
            /\ UNCHANGED <<call, api>>
       ELSE IF ~data.files \/ ~data.buildable
       THEN /\ ret' = Returned("solve_optimization", sid, "error_message")
            /\ UNCHANGED <<call, api>>
       ELSE /\ call' = [ CallIdle EXCEPT !.tool = "solve_optimization", !.sid = sid,
                                         !.pc = "api", !.submissions = 1,
                                         !.session = Some(sessions[sid]) ]
            /\ api' = StartCall(data.orders, data.drivers)
            /\ ret' = RetNone
    /\ UNCHANGED <<sessions, nextId, activeSessionId, progress>>

\* handleSolveOptimization calls waitForCompletion(jobId) with the default wait
SolveWait ==
    /\ call.tool = "solve_optimization"
    /\ ClientWaitStart(DefaultMaxWait)

\* a fresh session object holding the result alone
SolvedSessionAnew(s, result) == [ NewSession EXCEPT !.last_result = Some(result) ]

\* the session handleSolveOptimization saves: the one it loaded, with the result
SolvedSession(s, result) == [ s EXCEPT !.last_result = Some(result) ]

\* handleSolveOptimization after the client call: store and complete, or
\* format the error
SolveEnd ==
    /\ call.tool = "solve_optimization"
    /\ api.pc = "done"
    /\ IF Outcome.ok
       THEN /\ sessions' = CompleteStep(
                              SaveSession(sessions, call.sid,
                                          SolvedSession(Get(call.session), OutcomeResult)),
                              call.sid, "solve_optimization")
            /\ ret' = Returned("solve_optimization", call.sid, "ok")
            /\ progress' = Advance(call.sid, "solve_optimization", TRUE)
       ELSE /\ ret' = Returned("solve_optimization", call.sid, "solve_failed")
            /\ UNCHANGED <<sessions, progress>>
    /\ call' = CallIdle
    /\ api' = ApiIdle
    /\ UNCHANGED <<nextId, activeSessionId>>

\* handleAnalyzeResults
AnalyzeResultsCall(sid) ==
    /\ call.tool = "none"
    /\ sessions' = AnalyzeResults(sessions, sid).store
    /\ ret' = Returned("analyze_results", sid, AnalyzeResults(sessions, sid).status)
    /\ progress' = Advance(sid, "analyze_results", AnalyzeResults(sessions, sid).status = "ok")
    /\ UNCHANGED <<nextId, activeSessionId, call, api>>

\* handleExportResults
ExportResultsCall(sid) ==
    /\ call.tool = "none"
    /\ sessions' = ExportResults(sessions, sid).store
    /\ ret' = Returned("export_results", sid, ExportResults(sessions, sid).status)
    /\ progress' = Advance(sid, "export_results", ExportResults(sessions, sid).status = "ok")
    /\ UNCHANGED <<nextId, activeSessionId, call, api>>

\* handleRefineSolution up to its loop
RefineBegin(sid, objective, max_iterations, preserve_constraints) ==
    /\ call.tool = "none"
    /\ IF sid \notin DOMAIN sessions
       THEN /\ ret' = Returned("refine_solution", sid, "session_not_found")
            /\ UNCHANGED call
       ELSE IF sessions[sid].last_result = None
       THEN /\ ret' = Returned("refine_solution", sid, "no_result")
            /\ UNCHANGED call
       ELSE IF AdjustConfiguration(sessions[sid].config, objective, preserve_constraints) = None
       THEN /\ ret' = Returned("refine_solution", sid, "error_message")
            /\ UNCHANGED call
       ELSE /\ call' = [ CallIdle EXCEPT
                           !.tool = "refine_solution", !.sid = sid, !.pc = "loop",
                           !.max_iterations = max_iterations, !.objective = objective,
                           !.session = Some(sessions[sid]),
                           !.config = AdjustConfiguration(sessions[sid].config, objective,
                                                          preserve_constraints),
                           !.best = sessions[sid].last_result ]
            /\ ret' = RetNone
    /\ UNCHANGED <<sessions, nextId, activeSessionId, api, progress>>

\* a pass of the loop that starts whatever the iteration count
RefineIterateUncounted(data) ==
    /\ call.tool = "refine_solution"
    /\ call.pc = "loop"
    /\ IF data.files /\ IsSome(Get(call.config).constraints) /\ data.buildable
       THEN /\ call' = [ call EXCEPT !.iteration = @ + 1, !.pc = "api",
                                     !.submissions = @ + 1 ]
            /\ api' = StartSyncCall(data.orders, data.drivers)
       ELSE /\ call' = [ call EXCEPT !.iteration = @ + 1, !.pc = "finish" ]
            /\ api' = api
    /\ UNCHANGED <<sessions, nextId, activeSessionId, ret, progress>>

\* one pass of the loop up to optimizeRoutes: anything thrown on the way
\* (files unreadable, no constraints in the configuration, rows the request
\* builder rejects) breaks out of the loop
RefineIterate(data) ==
    /\ call.tool = "refine_solution"
    /\ call.pc = "loop"
    /\ call.iteration < call.max_iterations
    /\ IF data.files /\ IsSome(Get(call.config).constraints) /\ data.buildable
       THEN /\ call' = [ call EXCEPT !.iteration = @ + 1, !.pc = "api",
                                     !.submissions = @ + 1 ]
            /\ api' = StartSyncCall(data.orders, data.drivers)
       ELSE /\ call' = [ call EXCEPT !.iteration = @ + 1, !.pc = "finish" ]
            /\ api' = api
    /\ UNCHANGED <<sessions, nextId, activeSessionId, ret, progress>>

\* the rest of the pass, once optimizeRoutes has returned or thrown
RefineResult ==
    /\ call.tool = "refine_solution"
    /\ call.pc = "api"
    /\ api.pc = "done"
    /\ IF ~Outcome.ok
       THEN call' = [ call EXCEPT !.pc = "finish" ]
       ELSE LET old == Get(call.best)
                new == OutcomeResult
                best == IF Improved(old, new, call.objective) THEN Some(new) ELSE call.best
                tuned == FinetuneConfig(Get(call.config), old, new, call.objective)
            IN  IF Converged(old, new, call.objective) \/ tuned = None
                THEN call' = [ call EXCEPT !.best = best, !.pc = "finish" ]
                ELSE call' = [ call EXCEPT !.best = best, !.config = tuned, !.pc = "loop" ]
    /\ api' = ApiIdle
    /\ UNCHANGED <<sessions, nextId, activeSessionId, ret, progress>>

\* after the loop: the best result and the adjusted configuration are saved
\* when the best result is not the one the session came with
RefineEnd ==
    /\ call.tool = "refine_solution"
    /\ \/ call.pc = "finish"
       \/ call.pc = "loop" /\ ~(call.iteration < call.max_iterations)
    /\ IF call.best # Get(call.session).last_result
       THEN /\ sessions' = SaveSession(sessions, call.sid,
                              [ Get(call.session) EXCEPT !.last_result = call.best,
                                                         !.config = call.config ])
            /\ ret' = Returned("refine_solution", call.sid, "improved")
       ELSE /\ sessions' = sessions
            /\ ret' = Returned("refine_solution", call.sid, "unchanged")
    /\ progress' = Advance(call.sid, "refine_solution",
                            call.best # Get(call.session).last_result)
    /\ call' = CallIdle
    /\ UNCHANGED <<nextId, activeSessionId, api>>

SessionIds == 1..(MaxProjects + 1)

Next ==
    \/ \E force_new \in BOOLEAN : StartProject(force_new)
    \/ \E sid \in SessionIds, data \in PrepareInputs : PrepareDataCall(sid, data)
    \/ \E args \in WorkflowConfigureArgs, data \in WorkflowData : ConfigureProblem(args, data)
    \/ \E sid \in SessionIds, force_retry \in BOOLEAN, data \in WorkflowData :
          SolveBegin(sid, force_retry, data)
    \/ SolveWait
    \/ SolveEnd
    \/ \E sid \in SessionIds : AnalyzeResultsCall(sid)
    \/ \E sid \in SessionIds, args \in RefineArgs :
          RefineBegin(sid, args.objective, args.max_iterations, args.preserve_constraints)
    \/ \E data \in WorkflowData : RefineIterate(data)
    \/ RefineResult
    \/ RefineEnd
    \/ \E sid \in SessionIds : ExportResultsCall(sid)
    \/ ClientPost
    \/ \E reply \in WorkflowSyncReplies : ClientSyncReply(reply)
    \/ \E reply \in WorkflowLongReplies : ClientLongReply(reply)
    \/ ClientCheck
    \/ \E reply \in WorkflowCheckReplies, l \in WorkflowLatencies : ClientCheckReply(reply, l)
    \/ ClientTimeout

Spec == Init /\ [][Next]_vars

(***************************************************************************)
(* Properties of the server.                                               *)
(***************************************************************************)
\* C2: a session on which the seven tools have each run successfully, in
\* workflow order, has all seven step names in steps_completed, current_step
\* 7 and no next step.
C2_TerminalState ==
    \A sid \in DOMAIN sessions :
        progress[sid] = Len(WorkflowSteps) =>
            /\ \A step \in StepNames : Includes(sessions[sid].steps_completed, step)
            /\ sessions[sid].current_step = Len(WorkflowSteps)
            /\ GetNextStep(sessions[sid]) = None

\* a solve_optimization call returns in this step
SolveReturns == ret'.tool = "solve_optimization" /\ call'.tool = "none"

\* ... having failed: before or at the request build, in the client call, or
\* with a result whose status is 'infeasible'
SolveFails ==
    \/ ret'.status \notin { "ok", "already_solved" }
    \/ /\ call.tool = "solve_optimization" /\ api.pc = "done"
       /\ (~Outcome.ok \/ OutcomeResult.status = "infeasible")

\* C4: a solve_optimization call that fails returns a message and leaves
\* the stored session as it was.
C4_FailedSolveKeepsSession ==
    [][ (SolveReturns /\ SolveFails) =>
            /\ ret'.status \in { "session_not_found", "preflight_failed",
                                 "error_message", "solve_failed" }
            /\ sessions' = sessions ]_vars

\* C5: last_result changes only when solve_optimization stores the result it
\* obtained or refine_solution stores its best result; it is then that
\* result, and it is never cleared.
C5_LastResultIsLatest ==
    [][ \A sid \in DOMAIN sessions' :
          LET before == IF sid \in DOMAIN sessions
                        THEN sessions[sid].last_result ELSE None
              after == sessions'[sid].last_result
          IN  /\ (ret'.tool = "solve_optimization" /\ ret'.status = "ok" /\ ret'.sid = sid)
                    => after = Some(OutcomeResult)
              /\ (ret'.tool = "refine_solution" /\ ret'.status = "improved" /\ ret'.sid = sid)
                    => after = call.best /\ after # before
              /\ after # before =>
                    /\ ret'.sid = sid
                    /\ \/ ret'.tool = "solve_optimization" /\ ret'.status = "ok"
                       \/ ret'.tool = "refine_solution" /\ ret'.status = "improved"
                    /\ IsSome(after) ]_vars

\* C5 witness: a refinement has replaced the solve's result, and export has
\* run on it since
C5_Witness ==
    /\ ret = Returned("export_results", 1, "ok")
    /\ 1 \in DOMAIN sessions
    /\ sessions[1].steps_completed =
          << "start_project", "prepare_data", "configure_problem",
             "solve_optimization", "export_results" >>
    /\ sessions[1].last_result = Some(TransformOmeletResponse(RawBetter))
    /\ Get(Get(sessions[1].config).advanced_options).optimization_intensity = "thorough"

SolverBody ==
    IF api.endpoint = SyncEndpoint
    THEN LastReply.body
    ELSE Get(LastReply.body.result)

\* a client call has returned a transformed solver response
Transformed ==
    /\ api.pc = "done" /\ IsSome(api.outcome) /\ Outcome.ok
    /\ api.endpoint = SyncEndpoint \/ api.waited

\* names without its first and its last entry
Inner(names) == [ j \in 1..(Len(names) - 2) |-> names[j + 1] ]

\* C19: transformOmeletResponse yields one route per input route, in the
\* same order, whose visits are the route's names without the depot entry at
\* either end, and hands the unassigned visit names on unchanged.
C19_RoutesStripped ==
    Transformed =>
        /\ Len(OutcomeResult.routes) = Len(SolverBody.routes)
        /\ \A i \in 1..Len(SolverBody.routes) :
              /\ OutcomeResult.routes[i].vehicle_name = SolverBody.routes[i].vehicle_name
              /\ OutcomeResult.routes[i].visits = Inner(SolverBody.routes[i].route_name)
              /\ "depot" \notin { OutcomeResult.routes[i].visits[j] :
                                   j \in 1..Len(OutcomeResult.routes[i].visits) }
        /\ OutcomeResult.unassigned_visits = SolverBody.unassigned_visit_names

\* C19 witness: routes [[depot, A, B, depot]] have become one route with
\* visits [A, B]
C19_Witness ==
    /\ Transformed
    /\ Len(SolverBody.routes) = 1
    /\ SolverBody.routes[1].route_name = << "depot", "A", "B", "depot" >>
    /\ Len(OutcomeResult.routes) = 1
    /\ OutcomeResult.routes[1].visits = << "A", "B" >>

(***************************************************************************)
(* The request builder (OmeletAPIClient.transformToOmeletRequest).         *)
(*                                                                         *)
(* Rows are the records the CSV processor hands over.  A coordinate is a   *)
(* pair of whole degrees; a time string is either "HH:MM" or a full        *)
(* timestamp of the current day, kept as its format and minute of the day; *)
(* a field that is absent or empty is None.                                *)
(***************************************************************************)
MaxRows == 2         \* rows of each kind handed to the request builder

Coord(lat, lng) == [ lat |-> lat, lng |-> lng ]

\* "HH:MM"
HhMm(min) == [ fmt |-> "hhmm", min |-> min ]

\* "<today>THH:MM:00Z"
Iso(min) == [ fmt |-> "iso", min |-> min ]

\* Volumes are z.number(), so they need not be whole: a volume or a volume
\* capacity is counted in tenths of the unit, and n whole units are
Tenths(n) == 10 * n

Driver(coord, capacity, volume_capacity, shift, preference, cost, vehicle_type) ==
    [ start_location |-> coord,
      capacity |-> capacity,
      volume_capacity |-> volume_capacity,   \* in tenths
      working_hours_start |-> shift,         \* None or Some(time)
      visit_preference_1 |-> preference,     \* None or Some(rank)
      fixed_cost |-> cost,
      vehicle_type |-> vehicle_type ]

Order(coord, weight, volume, from, to) ==
    [ delivery |-> coord, weight |-> weight, volume |-> volume,   \* volume in tenths
      time_window_start |-> from, time_window_end |-> to ]

Depot(coord) == [ location |-> coord ]

Seoul == Coord(37, 127)
Pole == Coord(90, -180)          \* on the edge of both ranges
BadLat == Coord(91, 127)
BadLng == Coord(37, -181)

DriverRows ==
    { Driver(Seoul, 0, 0, None, None, 0, "car"),
      Driver(Seoul, 1000, 0, None, None, 0, "car"),
      Driver(Seoul, 0, 5, None, None, 0, "car"),          \* volume_capacity 0.5
      Driver(Seoul, 0, 0, Some(HhMm(540)), None, 0, "car"),
      Driver(Seoul, 0, 0, None, Some(1), 0, "car"),
      Driver(Pole, 0, 0, None, None, 50, "car"),
      Driver(Seoul, 0, 0, None, None, 0, "truck"),
      Driver(BadLat, 0, 0, None, None, 0, "car") }

OrderRows ==
    { Order(Seoul, 0, 0, None, None),
      Order(Pole, 1000, 0, None, None),
      Order(Seoul, 0, 3, None, None),                       \* volume 0.3
      Order(Seoul, 0, 0, Some(HhMm(540)), Some(HhMm(1020))),
      Order(Seoul, 0, 0, Some(HhMm(1020)), Some(HhMm(540))),
      Order(Seoul, 0, 0, Some(Iso(540)), Some(Iso(540))),
      Order(Seoul, 0, 0, Some(Iso(1080)), Some(HhMm(540))),
      Order(BadLng, 0, 0, None, None) }

DepotRows == { Depot(Seoul), Depot(BadLat) }

\* the sequences over S of at most MaxRows rows
Rows(S) == UNION { [ 1..n -> S ] : n \in 0..MaxRows }

\* the options the builder's callers may or may not give
BuilderOptions ==
    [ enableCapacityConstraint : { "true", "false", "undefined" },
      enableTimeWindowConstraint : { "true", "false", "undefined" },
      objective : { "minsum", "minmax", "undefined" } ]

\* shouldEnableCapacityConstraintFromData looking at the drivers alone
DriversHaveCapacity(drivers, orders) ==
    \E i \in 1..Len(drivers) : drivers[i].volume_capacity > 0 \/ drivers[i].capacity > 0

\* shouldEnableCapacityConstraintFromData
OrderHasVolume(o) == o.volume > 0 \/ o.weight > 0
DriverHasCapacity(d) == d.volume_capacity > 0 \/ d.capacity > 0
ShouldEnableCapacityConstraintFromData(drivers, orders) ==
    (\E k \in DOMAIN orders : OrderHasVolume(orders[k])) \/ (\E k \in DOMAIN drivers : DriverHasCapacity(drivers[k]))

\* transformToOmeletRequest, steps 1 to 3: optionsWithCapacity
OptionsWithCapacity(drivers, orders, options) ==
    [ options EXCEPT !.enableCapacityConstraint =
        IF options.enableCapacityConstraint # "undefined"
        THEN options.enableCapacityConstraint
        ELSE Tri(ShouldEnableCapacityConstraintFromData(drivers, orders)) ]

\* analyzeProblemType: the flags it derives ...
DriverHasWeightCapacity(d) == d.capacity > 0
OrderHasWeightOrVolume(o) == o.weight > 0 \/ o.volume > 0
OrderHasTimeWindow(o) == IsSome(o.time_window_start) /\ IsSome(o.time_window_end)
DriverHasWorkingHours(d) == IsSome(d.working_hours_start)
DriverHasPreference(d) == IsSome(d.visit_preference_1)
DriverHasCosts(d) == d.fixed_cost > 0

ProblemFlags(drivers, orders, options) ==
    [ hasCapacity |->
        IF options.enableCapacityConstraint # "undefined"
        THEN options.enableCapacityConstraint = "true"
        ELSE (\E k \in DOMAIN drivers : DriverHasWeightCapacity(drivers[k]))
                \/ (\E k \in DOMAIN orders : OrderHasWeightOrVolume(orders[k])),
      hasTimeWindows |->
        options.enableTimeWindowConstraint = "true"
            \/ (\E k \in DOMAIN orders : OrderHasTimeWindow(orders[k])),
      hasWorkingHours |-> (\E k \in DOMAIN drivers : DriverHasWorkingHours(drivers[k])),
      hasPreferences |-> (\E k \in DOMAIN drivers : DriverHasPreference(drivers[k])),
      hasMultiObjective |-> (\E k \in DOMAIN drivers : DriverHasCosts(drivers[k])),
      hasDiverseVehicleTypes |->
        Cardinality({ drivers[i].vehicle_type : i \in 1..Len(drivers) }) > 1 ]

\* ... with the capacity rule asking for nothing but capacity
ProblemTypeCapacityFirst(nDrivers, f) ==
    IF nDrivers = 1 /\ ~f.hasCapacity /\ ~f.hasTimeWindows THEN "TSP"
    ELSE IF f.hasCapacity THEN "CVRP"
    ELSE IF f.hasPreferences \/ f.hasDiverseVehicleTypes THEN "CVRP_Preferences"
    ELSE IF f.hasMultiObjective THEN "Multi_Objective_CVRP"
    ELSE IF nDrivers > 1 THEN "CVRP"
    ELSE "TSP"

\* ... without the last branch, which sends several drivers to CVRP
ProblemTypeNoFallback(nDrivers, f) ==
    IF nDrivers = 1 /\ ~f.hasCapacity /\ ~f.hasTimeWindows THEN "TSP"
    ELSE IF f.hasCapacity /\ ~f.hasTimeWindows /\ ~f.hasWorkingHours
                /\ ~f.hasPreferences THEN "CVRP"
    ELSE IF f.hasCapacity /\ f.hasTimeWindows THEN "CVRPTW"
    ELSE IF f.hasCapacity /\ f.hasWorkingHours THEN "CVRP_Driver_Shifts"
    ELSE IF f.hasPreferences \/ f.hasDiverseVehicleTypes THEN "CVRP_Preferences"
    ELSE IF f.hasMultiObjective THEN "Multi_Objective_CVRP"
    ELSE "TSP"

\* ... and the if/else-if chain that picks the type; 'TSP' is what the
\* variable holds when no branch assigns it
ProblemType(nDrivers, f) ==
    IF nDrivers = 1 /\ ~f.hasCapacity /\ ~f.hasTimeWindows THEN "TSP"
    ELSE IF f.hasCapacity /\ ~f.hasTimeWindows /\ ~f.hasWorkingHours
                /\ ~f.hasPreferences THEN "CVRP"
    ELSE IF f.hasCapacity /\ f.hasTimeWindows THEN "CVRPTW"
    ELSE IF f.hasCapacity /\ f.hasWorkingHours THEN "CVRP_Driver_Shifts"
    ELSE IF f.hasPreferences \/ f.hasDiverseVehicleTypes THEN "CVRP_Preferences"
    ELSE IF f.hasMultiObjective THEN "Multi_Objective_CVRP"
    ELSE IF nDrivers > 1 THEN "CVRP"
    ELSE "TSP"

AnalyzeProblemType(drivers, orders, options) ==
    [ type |-> ProblemType(Len(drivers), ProblemFlags(drivers, orders, options)),
      flags |-> ProblemFlags(drivers, orders, options) ]

\* lng < -180 || lng > 180 || lat < -90 || lat > 90, negated
InRange(c) == c.lng >= -180 /\ c.lng <= 180 /\ c.lat >= -90 /\ c.lat <= 90

\* buildDepot
BuildDepot(depots, drivers) ==
    IF Len(depots) > 0
    THEN IF InRange(depots[1].location)
         THEN Ok([ name |-> "Main Depot", coordinate |-> depots[1].location ])
         ELSE Thrown(TMSError("INVALID_DEPOT_COORDINATES", 0))
    ELSE IF Len(drivers) > 0
    THEN IF InRange(drivers[1].start_location)
         THEN Ok([ name |-> "Default Depot", coordinate |-> drivers[1].start_location ])
         ELSE Thrown(TMSError("INVALID_DRIVER_COORDINATES", 0))
    ELSE Thrown(TMSError("INSUFFICIENT_DATA", 0))

\* `${today}T${time}:00Z`: a timestamp when time is "HH:MM", and no
\* timestamp at all when time already is one
Dated(time) ==
    IF time.fmt = "hhmm" THEN Iso(time.min) ELSE [ fmt |-> "garbled", min |-> time.min ]

\* buildVisits: the time_window of a visit, the format decided by the start
TimeWindowOf(order) ==
    IF Get(order.time_window_start).fmt = "iso"
    THEN << Get(order.time_window_start), Get(order.time_window_end) >>
    ELSE << Dated(Get(order.time_window_start)), Dated(Get(order.time_window_end)) >>

\* buildVisits: one visit
Visit(order, f) ==
    [ coordinate |-> order.delivery,
      weight |-> IF f.hasCapacity THEN Some(Max(0, order.weight)) ELSE None,
      volume |-> IF f.hasCapacity THEN Some(Max(0, order.volume)) ELSE None,
      time_window |->
        IF f.hasTimeWindows /\ OrderHasTimeWindow(order)
        THEN Some(TimeWindowOf(order)) ELSE None ]

OrderOutOfRange(o) == ~InRange(o.delivery)

\* buildVisits
BuildVisits(orders, f) ==
    IF (\E k \in DOMAIN orders : OrderOutOfRange(orders[k]))
    THEN Thrown(TMSError("INVALID_COORDINATES", 0))
    ELSE Ok([ i \in 1..Len(orders) |-> Visit(orders[i], f) ])

\* Math.max(1, Number(driver.capacity) || 1000)
WeightCapacity(driver) == Max(1, IF driver.capacity # 0 THEN driver.capacity ELSE 1000)

\* buildVehicles: one vehicle
Vehicle(driver, f) ==
    [ vehicle_type |-> driver.vehicle_type,
      weight_capacity |-> IF f.hasCapacity THEN Some(WeightCapacity(driver)) ELSE None,
      volume_capacity |->
        IF ~f.hasCapacity THEN None
        ELSE IF driver.volume_capacity > 0 THEN Some(driver.volume_capacity)
        ELSE Some(Tenths(WeightCapacity(driver))),
      work_start_time |->
        IF f.hasWorkingHours /\ IsSome(driver.working_hours_start)
        THEN Some(IF Get(driver.working_hours_start).fmt = "iso"
                  THEN Get(driver.working_hours_start)
                  ELSE Dated(Get(driver.working_hours_start)))
        ELSE None,
      return_to_depot |-> TRUE ]

\* buildVehicles
BuildVehicles(drivers, f) == [ i \in 1..Len(drivers) |-> Vehicle(drivers[i], f) ]

\* buildVehicles sets problemAnalysis.hasTimeWindows for every driver it
\* maps when hasWorkingHours holds
AfterBuildVehicles(drivers, f) ==
    IF f.hasWorkingHours /\ Len(drivers) > 0
    THEN [ f EXCEPT !.hasTimeWindows = TRUE ]
    ELSE f

\* buildApiOptions deaf to the objective its caller asks for
BuildApiOptionsUnasked(type, vehicleCount, options) ==
    [ objective_type |-> IF type = "TSP" /\ vehicleCount > 1 THEN "minmax" ELSE "minsum",
      distance_type |-> "euclidean" ]

\* buildApiOptions: the objective ('minsum' unless a TSP has several
\* vehicles or the caller asks for 'minmax') and the distance type
BuildApiOptions(type, vehicleCount, options) ==
    [ objective_type |->
        IF type = "TSP" /\ vehicleCount > 1 THEN "minmax"
        ELSE IF options.objective = "minmax" THEN "minmax"
        ELSE "minsum",
      distance_type |-> "euclidean" ]

\* buildFinalRequest
BuildFinalRequest(depot, visits, vehicles, option) ==
    [ depot |-> depot, visits |-> visits, vehicles |-> vehicles, option |-> option ]

\* validateRequest: the two reduce() sums
RECURSIVE TotalDemand(_, _)
TotalDemand(visits, n) ==
    IF n = 0 THEN 0
    ELSE (IF IsSome(visits[n].weight) THEN Get(visits[n].weight) ELSE 0)
            + TotalDemand(visits, n - 1)

RECURSIVE TotalCapacity(_, _)
TotalCapacity(vehicles, n) ==
    IF n = 0 THEN 0
    ELSE (IF IsSome(vehicles[n].weight_capacity) THEN Get(vehicles[n].weight_capacity) ELSE 0)
            + TotalCapacity(vehicles, n - 1)

\* new Date(string): the instant, or no instant (Invalid Date) when the
\* string is not a timestamp
DateOf(time) == IF time.fmt = "iso" THEN Some(time.min) ELSE None

\* start >= end on two Dates: false as soon as one of them is invalid
DateGeq(start, end) ==
    IsSome(DateOf(start)) /\ IsSome(DateOf(end)) /\ Get(DateOf(start)) >= Get(DateOf(end))

VisitHasInvalidTimeWindow(visit) ==
    IsSome(visit.time_window)
        /\ DateGeq(Get(visit.time_window)[1], Get(visit.time_window)[2])

\* validateRequest without its two length checks
ValidateRequestAnyLength(request, f) ==
    IF f.hasTimeWindows /\ (\E k \in DOMAIN request.visits : VisitHasInvalidTimeWindow(request.visits[k]))
    THEN Some(TMSError("INVALID_TIME_WINDOWS", 0))
    ELSE None

\* validateRequest: the error it throws, if any
ValidateRequest(request, f) ==
    IF Len(request.visits) = 0 THEN Some(TMSError("NO_VISITS", 0))
    ELSE IF Len(request.vehicles) = 0 THEN Some(TMSError("NO_VEHICLES", 0))
    ELSE IF f.hasTimeWindows /\ (\E k \in DOMAIN request.visits : VisitHasInvalidTimeWindow(request.visits[k]))
    THEN Some(TMSError("INVALID_TIME_WINDOWS", 0))
    ELSE None

\* validateRequest warning at any demand
CapacityWarningAlways(request, f) ==
    /\ Len(request.visits) > 0 /\ Len(request.vehicles) > 0
    /\ f.hasCapacity

\* validateRequest: whether it gets to console.warn
CapacityWarning(request, f) ==
    /\ Len(request.visits) > 0 /\ Len(request.vehicles) > 0
    /\ f.hasCapacity
    /\ TotalDemand(request.visits, Len(request.visits))
          > TotalCapacity(request.vehicles, Len(request.vehicles))

\* what a call of transformToOmeletRequest ends in: the request or the
\* error, whether the over-capacity warning was logged, and problemAnalysis
\* as the call leaves it
Built(outcome, warned, flags) ==
    [ outcome |-> outcome, warned |-> warned, flags |-> flags ]

\* transformToOmeletRequest, steps 5 to 10, on the analysis of step 4
BuildRequest(drivers, orders, depots, analysis, options) ==
    LET f == analysis.flags
        depot == BuildDepot(depots, drivers)
        visits == BuildVisits(orders, f)
        vehicles == BuildVehicles(drivers, f)
        g == AfterBuildVehicles(drivers, f)
        request == BuildFinalRequest(Get(depot.result), Get(visits.result), vehicles,
                                     BuildApiOptions(analysis.type, Len(vehicles), options))
    IN  IF ~depot.ok THEN Built(depot, FALSE, f)
        ELSE IF ~visits.ok THEN Built(visits, FALSE, f)
        ELSE IF IsSome(ValidateRequest(request, g))
        THEN Built(Thrown(Get(ValidateRequest(request, g))), CapacityWarning(request, g), g)
        ELSE Built(Ok(request), CapacityWarning(request, g), g)

\* transformToOmeletRequest
TransformToOmeletRequest(drivers, orders, depots, options) ==
    BuildRequest(drivers, orders, depots,
        AnalyzeProblemType(drivers, orders, OptionsWithCapacity(drivers, orders, options)),
        OptionsWithCapacity(drivers, orders, options))

(***************************************************************************)
(* The request builder as a state machine: a call of                       *)
(* transformToOmeletRequest with its arguments, the classification step    *)
(* (steps 1 to 4) and the build step (steps 5 to 10).  `call` holds the    *)
(* call, `ret` what it ended in.                                           *)
(***************************************************************************)
BuilderCall(drivers, orders, depots, options) ==
    [ tool |-> "transformToOmeletRequest", pc |-> "analyze",
      drivers |-> drivers, orders |-> orders, depots |-> depots,
      options |-> options, analysis |-> None ]

InitBuilder ==
    /\ sessions = NoSessions
    /\ nextId = 1
    /\ activeSessionId = 0
    /\ api = ApiIdle
    /\ progress = << >>
    /\ ret = RetNone
    /\ \E drivers \in Rows(DriverRows), orders \in Rows(OrderRows),
          depots \in Rows(DepotRows), options \in BuilderOptions :
            call = BuilderCall(drivers, orders, depots, options)

\* steps 1 to 4: the capacity flag is resolved and the problem classified
Classify ==
    /\ call.pc = "analyze"
    /\ call' = [ call EXCEPT
                  !.pc = "build",
                  !.analysis = Some(AnalyzeProblemType(call.drivers, call.orders,
                      OptionsWithCapacity(call.drivers, call.orders, call.options))) ]
    /\ UNCHANGED <<sessions, nextId, activeSessionId, ret, api, progress>>

\* steps 5 to 10: the request is built and validated
Build ==
    /\ call.pc = "build"
    /\ ret' = BuildRequest(call.drivers, call.orders, call.depots, Get(call.analysis),
                            OptionsWithCapacity(call.drivers, call.orders, call.options))
    /\ call' = [ call EXCEPT !.pc = "done" ]
    /\ UNCHANGED <<sessions, nextId, activeSessionId, api, progress>>

NextBuilder == Classify \/ Build

SpecBuilder == InitBuilder /\ [][NextBuilder]_vars

(***************************************************************************)
(* Properties of the request builder.                                      *)
(***************************************************************************)
\* the classification step of a builder call has run
Classified == call.tool = "transformToOmeletRequest" /\ IsSome(call.analysis)

\* the builder call has ended
BuilderDone == call.tool = "transformToOmeletRequest" /\ call.pc = "done"

Analysis == Get(call.analysis)

\* the tag of the first rule of a priority list that matches, "" when none does
FirstMatch(rules) ==
    IF \E i \in 1..Len(rules) : rules[i].when
    THEN rules[CHOOSE i \in 1..Len(rules) :
                  rules[i].when /\ \A j \in 1..(i - 1) : ~rules[j].when].tag
    ELSE ""

Rule(when, tag) == [ when |-> when, tag |-> tag ]

\* the priority list as stated
StatedRules(n, f) ==
    << Rule(n = 1 /\ ~f.hasCapacity /\ ~f.hasTimeWindows, "TSP"),
       Rule(f.hasCapacity /\ ~f.hasTimeWindows /\ ~f.hasWorkingHours
                /\ ~f.hasPreferences, "CVRP"),
       Rule(f.hasCapacity /\ f.hasTimeWindows, "CVRPTW"),
       Rule(f.hasCapacity /\ f.hasWorkingHours /\ ~f.hasTimeWindows, "CVRP_Driver_Shifts"),
       Rule(f.hasPreferences \/ f.hasDiverseVehicleTypes, "CVRP_Preferences"),
       Rule(f.hasMultiObjective, "Multi_Objective_CVRP"),
       Rule(n > 1, "CVRP") >>

\* C12 as stated: for every driver count and flag values the tag is the one
\* of the first matching rule of the list TSP (single driver, no capacity,
\* no time windows), CVRP (capacity only), CVRPTW, CVRP_Driver_Shifts,
\* CVRP_Preferences, Multi_Objective_CVRP, CVRP (multiple drivers).
C12_PriorityList ==
    Classified =>
        Analysis.type = FirstMatch(StatedRules(Len(call.drivers), Analysis.flags))

\* C12 (amended): the tag is the one of the first matching rule of that
\* list, "capacity only" meaning capacity without time windows, working
\* hours or preferences, and it is TSP when no rule matches (at most one
\* driver, no capacity, with time windows or none of the other flags).
C12_FirstMatchOrTsp ==
    Classified =>
        LET n == Len(call.drivers)
            f == Analysis.flags
        IN  /\ Analysis.type =
                  FirstMatch(StatedRules(n, f) \o << Rule(TRUE, "TSP") >>)
            /\ FirstMatch(StatedRules(n, f)) = "" =>
                  n <= 1 /\ ~f.hasCapacity /\ ~f.hasPreferences /\ ~f.hasMultiObjective

\* C12 witness: a single driver and orders with no capacity or time data are
\* classified TSP with hasCapacity and hasTimeWindows false
C12_Witness ==
    /\ Classified
    /\ Len(call.drivers) = 1 /\ Len(call.orders) = 2
    /\ call.options.enableCapacityConstraint = "undefined"
    /\ call.options.enableTimeWindowConstraint = "undefined"
    /\ Analysis.type = "TSP"
    /\ ~Analysis.flags.hasCapacity /\ ~Analysis.flags.hasTimeWindows

\* C13: hasTimeWindows is the explicit time-window override whenever one is
\* given, true or false, whatever the orders say; with no override it is
\* 'some order has both time-window bounds set'.
C13_TimeWindowOverrideWins ==
    Classified =>
        Analysis.flags.hasTimeWindows =
            IF call.options.enableTimeWindowConstraint # "undefined"
            THEN call.options.enableTimeWindowConstraint = "true"
            ELSE (\E k \in DOMAIN call.orders : OrderHasTimeWindow(call.orders[k]))

ZeroOrder(o) == o.weight = 0 /\ o.volume = 0
AllOrdersZero == \A i \in 1..Len(call.orders) : ZeroOrder(call.orders[i])

Request == Get(ret.outcome.result)
BuildError == Get(ret.outcome.error)

\* some driver, order or depot row has a coordinate out of range
SomeRowOutOfRange ==
    \/ \E i \in 1..Len(call.drivers) : ~InRange(call.drivers[i].start_location)
    \/ \E i \in 1..Len(call.orders) : ~InRange(call.orders[i].delivery)
    \/ \E i \in 1..Len(call.depots) : ~InRange(call.depots[i].location)

InvalidCoordinateCodes ==
    { "INVALID_COORDINATES", "INVALID_DEPOT_COORDINATES", "INVALID_DRIVER_COORDINATES" }

\* C15: transformToOmeletRequest fails with an invalid-coordinates error
\* whenever a driver, order or depot row has a latitude outside [-90, 90] or
\* a longitude outside [-180, 180], and never returns a request holding a
\* coordinate that is out of range or differs from its row's.
C15_BadCoordinatesRejected ==
    BuilderDone =>
        /\ SomeRowOutOfRange =>
              ~ret.outcome.ok /\ BuildError.code \in InvalidCoordinateCodes
        /\ ret.outcome.ok =>
              /\ InRange(Request.depot.coordinate)
              /\ \A i \in 1..Len(Request.visits) :
                    /\ InRange(Request.visits[i].coordinate)
                    /\ Request.visits[i].coordinate = call.orders[i].delivery

\* C16: a request returned by transformToOmeletRequest has a depot, at
\* least one visit and at least one vehicle; with no order or no driver the
\* builder throws a TMSError instead of returning a request.
C16_NonEmptyRequest ==
    BuilderDone =>
        /\ ret.outcome.ok =>
              /\ Request.depot.name \in { "Main Depot", "Default Depot" }
              /\ Len(Request.visits) = Len(call.orders) /\ Len(Request.visits) >= 1
              /\ Len(Request.vehicles) = Len(call.drivers) /\ Len(Request.vehicles) >= 1
        /\ (Len(call.orders) = 0 \/ Len(call.drivers) = 0) =>
              /\ ~ret.outcome.ok
              /\ BuildError.type = "TMSError"

\* C16 witness: a valid depot and a valid order with no driver end in the
\* NO_VEHICLES error
C16_Witness ==
    /\ BuilderDone
    /\ Len(call.drivers) = 0 /\ Len(call.orders) = 1 /\ Len(call.depots) = 1
    /\ ~ret.outcome.ok
    /\ BuildError.code = "NO_VEHICLES"

\* the minute of the current day a time string of an order row names
Minute(time) == Get(time).min

\* the two entries of a time_window are timestamps, the first before the second
StrictlyOrdered(window) ==
    /\ IsSome(DateOf(window[1])) /\ IsSome(DateOf(window[2]))
    /\ Get(DateOf(window[1])) < Get(DateOf(window[2]))

\* C17: for every order with both time-window bounds set, the visit's
\* time_window has its first timestamp strictly before its second when
\* start < end, and the builder fails when start >= end (with the
\* invalid-time-window error, unless an earlier check has thrown).
C17_TimeWindowsOrdered ==
    BuilderDone =>
        \A i \in 1..Len(call.orders) :
            OrderHasTimeWindow(call.orders[i]) =>
                IF Minute(call.orders[i].time_window_start)
                      < Minute(call.orders[i].time_window_end)
                THEN ret.outcome.ok =>
                        /\ IsSome(Request.visits[i].time_window)
                        /\ StrictlyOrdered(Get(Request.visits[i].time_window))
                ELSE /\ ~ret.outcome.ok
                     /\ BuildError.code \in
                          { "INVALID_TIME_WINDOWS", "INVALID_COORDINATES",
                            "INVALID_DEPOT_COORDINATES", "INVALID_DRIVER_COORDINATES",
                            "INSUFFICIENT_DATA", "NO_VEHICLES" }

RECURSIVE SumTo(_, _)
SumTo(s, n) == IF n = 0 THEN 0 ELSE s[n] + SumTo(s, n - 1)

\* the weight the orders of the call ask for
OrderedWeight ==
    SumTo([ i \in 1..Len(call.orders) |-> call.orders[i].weight ], Len(call.orders))

\* the weight the vehicles of the returned request can carry
VehicleWeight ==
    SumTo([ i \in 1..Len(Request.vehicles) |-> Get(Request.vehicles[i].weight_capacity) ],
          Len(Request.vehicles))

\* C18: with the capacity constraint active, transformToOmeletRequest never
\* fails over the demand: it returns the request and has logged the
\* over-capacity warning exactly when the total demand is greater than the
\* total vehicle capacity; when it throws, the error is one of the other
\* checks'.
C18_OverCapacityWarnsOnly ==
    (BuilderDone /\ ret.flags.hasCapacity) =>
        IF ret.outcome.ok
        THEN ret.warned <=> (OrderedWeight > VehicleWeight)
        ELSE BuildError.code \in
                { "INVALID_DEPOT_COORDINATES", "INVALID_DRIVER_COORDINATES",
                  "INSUFFICIENT_DATA", "INVALID_COORDINATES", "NO_VISITS",
                  "NO_VEHICLES", "INVALID_TIME_WINDOWS" }

\* C18 witness: two orders of weight 1000 for one vehicle of capacity 1000:
\* the request is returned and the warning logged
C18_Witness ==
    /\ BuilderDone /\ ret.flags.hasCapacity
    /\ ret.outcome.ok /\ ret.warned
    /\ OrderedWeight = 2000 /\ VehicleWeight = 1000

(***************************************************************************)
(* Properties of the saved configuration.                                  *)
(***************************************************************************)
ConstraintFlags == { "vehicle_capacity", "time_windows", "working_hours" }

\* the saved value of a constraint flag, "undefined" while none is saved
SavedFlag(s, f) ==
    IF IsSome(s.config) /\ IsSome(Get(s.config).constraints)
    THEN Get(Get(s.config).constraints)[f]
    ELSE "undefined"

\* this step replaces a saved constraint flag of session sid by another value
FlagChanges(sid) ==
    /\ sid \in DOMAIN sessions /\ sid \in DOMAIN sessions'
    /\ \E f \in ConstraintFlags :
          /\ SavedFlag(sessions[sid], f) # "undefined"
          /\ SavedFlag(sessions'[sid], f) # SavedFlag(sessions[sid], f)

\* C20: a constraint flag saved in a session's config (vehicle_capacity,
\* time_windows, working_hours) changes only in a configure_problem call
\* that was given constraint overrides; no other tool step changes it.
C20_FlagsChangeByOverrideOnly ==
    [][ \A sid \in SessionIds :
            FlagChanges(sid) =>
                ret'.tool = "configure_problem" /\ ret'.status = "constraints_set" ]_vars

(***************************************************************************)
(* Overlapping tool invocations.  The server starts a handler for every    *)
(* request it receives; a handler gives way at each await, so two          *)
(* invocations on one session interleave at their reads and writes of the  *)
(* session file.  `call` holds one invocation per slot, with the session   *)
(* object it has loaded; `ret` keeps what the finished steps have saved.   *)
(***************************************************************************)
MaxInvocations == 3  \* tool invocations started in the overlap specification

Procs == { "first", "second" }

RaceTools == { "solve_optimization", "analyze_results" }

\* the results the solver gives a re-optimization
RaceResults == { TransformOmeletResponse(RawBetter), TransformOmeletResponse(RawUnassigned) }

\* the store after start_project, prepare_data, configure_problem (start,
\* objective, confirm) and a first solve_optimization on session 1
RaceStore ==
    LET started == CompleteStep(SaveSession(NoSessions, 1, NewSession), 1, "start_project")
        prepared == PrepareData(started, 1, DataSmall).store
        analyzed == HandleConfigureProblem(prepared, 1,
                        ConfigureArgs("start", "", None, "", None), DataSmall).store
        chosen == HandleConfigureProblem(analyzed, 1,
                        ConfigureArgs("objective", "cost", None, "", None), DataSmall).store
        confirmed == HandleConfigureProblem(chosen, 1,
                        ConfigureArgs("confirm", "", None, "", None), DataSmall).store
    IN  CompleteStep(
            SaveSession(confirmed, 1,
                SolvedSession(confirmed[1], TransformOmeletResponse(RawOptimal))),
            1, "solve_optimization")

RaceIdle == [ tool |-> "none", sid |-> 0, pc |-> "idle", local |-> None ]

InitRace ==
    /\ sessions = RaceStore
    /\ nextId = 2
    /\ activeSessionId = 1
    /\ call = [ p \in Procs |-> RaceIdle ]
    /\ ret = [ started |-> 0, overlapped |-> FALSE, steps |-> {}, result |-> None ]
    /\ api = ApiIdle
    /\ progress = [ x \in {1} |-> 4 ]

\* a handler starts and loads the session (its first await); the checks of
\* both tools pass on a session that has a result
RaceLoad(p, tool, sid) ==
    /\ call[p].pc = "idle"
    /\ ret.started < MaxInvocations
    /\ sid \in DOMAIN sessions
    /\ IsSome(sessions[sid].last_result)
    /\ call' = [ call EXCEPT ![p] =
                  [ tool |-> tool, sid |-> sid, local |-> LoadSession(sessions, sid),
                    pc |-> IF tool = "solve_optimization" THEN "solving" ELSE "complete" ] ]
    /\ ret' = [ ret EXCEPT
                  !.started = @ + 1,
                  !.overlapped = @ \/ \E q \in Procs \ {p} : call[q].pc # "idle" ]
    /\ UNCHANGED <<sessions, nextId, activeSessionId, api, progress>>

\* handleSolveOptimization, back from the solver: the session object it
\* loaded at its start gets the result and is saved
RaceStoreResult(p, result) ==
    /\ call[p].pc = "solving"
    /\ sessions' = SaveSession(sessions, call[p].sid,
                               SolvedSession(Get(call[p].local), result))
    /\ call' = [ call EXCEPT ![p].pc = "complete" ]
    /\ ret' = [ ret EXCEPT !.result = Some(result) ]
    /\ UNCHANGED <<nextId, activeSessionId, api, progress>>

\* completeStep: await this.loadSession(sessionId)
RaceCompleteLoad(p) ==
    /\ call[p].pc = "complete"
    /\ call' = [ call EXCEPT ![p].local = LoadSession(sessions, call[p].sid),
                             ![p].pc = "complete_save" ]
    /\ UNCHANGED <<sessions, nextId, activeSessionId, ret, api, progress>>

\* completeStep: the update of the loaded object and await this.saveSession
RaceCompleteSave(p) ==
    /\ call[p].pc = "complete_save"
    /\ sessions' = SaveSession(sessions, call[p].sid,
                               CompletedStep(Get(call[p].local), call[p].tool))
    /\ ret' = [ ret EXCEPT !.steps = @ \cup { call[p].tool } ]
    /\ call' = [ call EXCEPT ![p] = RaceIdle ]
    /\ UNCHANGED <<nextId, activeSessionId, api, progress>>

NextRace ==
    \/ \E p \in Procs, tool \in RaceTools : RaceLoad(p, tool, 1)
    \/ \E p \in Procs, result \in RaceResults : RaceStoreResult(p, result)
    \/ \E p \in Procs : RaceCompleteLoad(p)
    \/ \E p \in Procs : RaceCompleteSave(p)

SpecRace == InitRace /\ [][NextRace]_vars

\* every step completion and the latest result the finished steps have
\* saved are in the session file
UpdatesPersist ==
    /\ \A step \in ret.steps : Includes(sessions[1].steps_completed, step)
    /\ IsSome(ret.result) => sessions[1].last_result = ret.result

RaceQuiet == \A p \in Procs : call[p].pc = "idle"

\* C11: the session store has no mutual exclusion.  In every execution in
\* which no invocation starts while another is in progress, each saved
\* update is still in the session file; invocations that overlap can lose
\* one (the witness).
C11_SequentialUpdatesPersist ==
    (DOMAIN call = Procs /\ ~ret.overlapped) => UpdatesPersist

\* C11 witness: two invocations have overlapped and finished, and the step
\* completion analyze_results saved is no longer in the session file
C11_Witness ==
    /\ DOMAIN call = Procs /\ RaceQuiet
    /\ ret.overlapped
    /\ "analyze_results" \in ret.steps
    /\ ~Includes(sessions[1].steps_completed, "analyze_results")

(***************************************************************************)
(* Further properties of the request builder.                              *)
(***************************************************************************)
\* the caller asked for the minimise-the-maximum objective
MinmaxRequested == call.options.objective = "minmax"

\* C21: the objective type of a built request is 'minmax' exactly when the
\* problem is a TSP with more than one vehicle or 'minmax' was asked for,
\* and 'minsum' in every other case
C21_ObjectiveType ==
    (BuilderDone /\ ret.outcome.ok) =>
        Request.option.objective_type =
            IF (Analysis.type = "TSP" /\ Len(Request.vehicles) > 1) \/ MinmaxRequested
            THEN "minmax" ELSE "minsum"

\* a classified CVRP for which 'minmax' was asked and is in the request
C21_Witness ==
    /\ BuilderDone /\ ret.outcome.ok
    /\ MinmaxRequested /\ Analysis.type = "CVRP"
    /\ Request.option.objective_type = "minmax"

\* the capacity flag as transformToOmeletRequest resolves it: the option
\* when it is given, what the rows show otherwise
ResolvedCapacity ==
    IF call.options.enableCapacityConstraint # "undefined"
    THEN call.options.enableCapacityConstraint = "true"
    ELSE ShouldEnableCapacityConstraintFromData(call.drivers, call.orders)

\* the visits and vehicles of the request carry their capacity fields
\* exactly when the resolved flag is true
CapacityFieldsFollowFlag ==
    /\ \A i \in 1..Len(Request.visits) :
          /\ IsSome(Request.visits[i].weight) <=> ResolvedCapacity
          /\ IsSome(Request.visits[i].volume) <=> ResolvedCapacity
    /\ \A i \in 1..Len(Request.vehicles) :
          /\ IsSome(Request.vehicles[i].weight_capacity) <=> ResolvedCapacity
          /\ IsSome(Request.vehicles[i].volume_capacity) <=> ResolvedCapacity

\* every weight and volume of a visit that carries them is at least 0
DemandsNotNegative ==
    \A i \in 1..Len(Request.visits) :
        /\ IsSome(Request.visits[i].weight) => Get(Request.visits[i].weight) >= 0
        /\ IsSome(Request.visits[i].volume) => Get(Request.visits[i].volume) >= 0

\* every weight capacity of a vehicle that carries one is at least 1
WeightCapacitiesFloored ==
    \A i \in 1..Len(Request.vehicles) :
        IsSome(Request.vehicles[i].weight_capacity)
            => Get(Request.vehicles[i].weight_capacity) >= 1

\* every volume capacity of a vehicle that carries one is at least 1
VolumeCapacitiesFloored ==
    \A i \in 1..Len(Request.vehicles) :
        IsSome(Request.vehicles[i].volume_capacity)
            => Get(Request.vehicles[i].volume_capacity) >= Tenths(1)

C23_SolvedSessionNotSolvedAgain ==
    [][ \A sid \in SessionIds, data \in WorkflowData :
            ( /\ sid \in DOMAIN sessions
              /\ IsSome(sessions[sid].last_result)
              /\ SolveBegin(sid, FALSE, data) )
                => /\ api' = api
                   /\ call' = call
                   /\ sessions' = sessions ]_vars

\* such a call has returned on a session that holds a result
C23_Witness ==
    \E sid \in DOMAIN sessions :
        /\ ret = Returned("solve_optimization", sid, "already_solved")
        /\ IsSome(sessions[sid].last_result)
        /\ api = ApiIdle

(***************************************************************************)
(* refine_solution on its own: a session that holds a result, the calls of *)
(* the tool and the solver's replies to each pass of its loop.  A handler  *)
(* that has started runs on, and the HTTP client's timeout ends every      *)
(* request, so the steps after the call itself are weakly fair.            *)
(***************************************************************************)
MaxIterations == 3  \* largest max_iterations given (the schema allows 1 to 5)

RefineCalls ==
    [ objective : { "completion", "cost", "general" },
      max_iterations : 1..MaxIterations,
      preserve_constraints : BOOLEAN ]

InitRefine ==
    /\ sessions = RaceStore
    /\ nextId = 2
    /\ activeSessionId = 1
    /\ call = CallIdle
    /\ ret = RetNone
    /\ api = ApiIdle
    /\ progress = [ x \in {1} |-> 4 ]

\* what follows a call of the tool without the caller doing anything
RefineStep ==
    \/ \E data \in WorkflowData : RefineIterate(data)
    \/ RefineResult
    \/ RefineEnd
    \/ ClientPost
    \/ \E reply \in WorkflowSyncReplies : ClientSyncReply(reply)

NextRefine ==
    \/ \E sid \in SessionIds, args \in RefineCalls :
          RefineBegin(sid, args.objective, args.max_iterations, args.preserve_constraints)
    \/ RefineStep

SpecRefine == InitRefine /\ [][NextRefine]_vars /\ WF_vars(RefineStep)

(***************************************************************************)
(* Properties of refine_solution.                                          *)
(***************************************************************************)
RefineRunning == call.tool = "refine_solution"

\* a step of the running call: it submits only from the head of the loop
\* with the count below max_iterations, leaves the loop on an error or a
\* converged pass, submits nothing once it has left, and returns only after
\* leaving the loop or reaching the count
RefineLoopStep ==
    (RefineRunning /\ call' # call) =>
        /\ (call'.tool = "refine_solution" /\ call'.submissions > call.submissions)
              => (call.pc = "loop" /\ call.iteration < call.max_iterations)
        /\ (call.pc = "api"
              /\ (~Outcome.ok \/ PercentBelow(Get(call.best), OutcomeResult, call.objective, 5)))
              => call'.pc = "finish"
        /\ call.pc = "finish" => call'.tool = "none"
        /\ call'.tool = "none"
              => (call.pc = "finish" \/ call.iteration = call.max_iterations)

\* C24: refine_solution ends after at most max_iterations solver calls: its
\* loop stops at the first build or solver error, at the first pass judged
\* converged, or when the count reaches max_iterations, and the call returns
C24_RefineTerminates ==
    /\ [](RefineRunning =>
            /\ call.iteration <= call.max_iterations
            /\ call.submissions <= call.iteration)
    /\ [][RefineLoopStep]_vars
    /\ (RefineRunning ~> ~RefineRunning)

\* the loop has used up its count with a solver call in every pass
C24_Witness ==
    /\ RefineRunning /\ call.pc = "loop"
    /\ call.max_iterations = 2
    /\ call.iteration = 2 /\ call.submissions = 2

(***************************************************************************)
(* Properties of the workflow's order.                                     *)
(***************************************************************************)
\* C25: solve_optimization submits a request to the solver for a session
\* only if prepare_data and configure_problem are both in that session's
\* steps_completed
C25_SolveAfterPrepareAndConfigure ==
    [][ (call.tool = "none" /\ call'.tool = "solve_optimization") =>
            /\ Includes(sessions[call'.sid].steps_completed, "prepare_data")
            /\ Includes(sessions[call'.sid].steps_completed, "configure_problem") ]_vars

\* the steps that work on a stored result
ResultSteps == { "solve_optimization", "analyze_results", "export_results" }

\* C26: a session that has solve_optimization, analyze_results or
\* export_results among its completed steps holds a last_result
C26_ResultStepsHaveResult ==
    \A sid \in DOMAIN sessions :
        (\E step \in ResultSteps : Includes(sessions[sid].steps_completed, step))
            => IsSome(sessions[sid].last_result)

\* a session that has completed all three steps, with its result
C26_Witness ==
    \E sid \in DOMAIN sessions :
        /\ ret = Returned("export_results", sid, "ok")
        /\ \A step \in ResultSteps : Includes(sessions[sid].steps_completed, step)
        /\ IsSome(sessions[sid].last_result)

\* C27: a session that has prepare_data among its completed steps has
\* data_status.validation_passed true
C27_PreparedMeansValidated ==
    \A sid \in DOMAIN sessions :
        Includes(sessions[sid].steps_completed, "prepare_data")
            => sessions[sid].data_status.validation_passed

\* the workflow indexes of the steps a session has completed
CompletedIndexes(s) ==
    { StepIndex(s.steps_completed[i]) : i \in 1..Len(s.steps_completed) }

\* one more than the largest of them, 0 when there is none
StepAfterCompleted(s) ==
    IF CompletedIndexes(s) = {} THEN 0
    ELSE 1 + CHOOSE k \in CompletedIndexes(s) : \A j \in CompletedIndexes(s) : j <= k

\* C28: from a new session on, whatever the tools that were called,
\* steps_completed has no duplicate and at most 7 entries, current_step is
\* between 0 and 7, and current_step is one more than the largest workflow
\* index among the completed steps (0 when none is completed)
C28_StepsWellFormed ==
    \A sid \in DOMAIN sessions :
        LET s == sessions[sid] IN
        /\ \A i, j \in 1..Len(s.steps_completed) :
              s.steps_completed[i] = s.steps_completed[j] => i = j
        /\ Len(s.steps_completed) <= 7
        /\ s.current_step \in 0..7
        /\ s.current_step = StepAfterCompleted(s)

\* prepare_data has run again on a session that had gone on to its
\* analysis: the step is there once and current_step stays at 5
C28_Witness ==
    \E sid \in DOMAIN sessions :
        /\ ret = Returned("prepare_data", sid, "ok")
        /\ Includes(sessions[sid].steps_completed, "analyze_results")
        /\ sessions[sid].current_step = 5

\* C29: no session holds as its last_result a result whose solver status
\* is 'infeasible', whether the synchronous call or the asynchronous
\* submit-and-poll produced it
C29_NoInfeasibleResultStored ==
    \A sid \in DOMAIN sessions :
        IsSome(sessions[sid].last_result)
            => Get(sessions[sid].last_result).status # "infeasible"

(***************************************************************************)
(* Properties of the TSP tag.                                              *)
(***************************************************************************)
\* the call was classified TSP
TaggedTsp == Classified /\ Analysis.type = "TSP"

\* no request classified TSP has more than one vehicle
TspRequestHasOneVehicle ==
    (BuilderDone /\ ret.outcome.ok /\ Analysis.type = "TSP")
        => Len(Request.vehicles) <= 1

\* C30 as stated: whenever the classifier's tag is TSP the input has
\* exactly one driver and neither capacity nor time windows are active, so
\* that no request classified TSP has more than one vehicle
C30_TspIsPlain ==
    /\ TaggedTsp =>
          /\ Len(call.drivers) = 1
          /\ ~Analysis.flags.hasCapacity
          /\ ~Analysis.flags.hasTimeWindows
    /\ TspRequestHasOneVehicle

\* C30 (amended): whenever the classifier's tag is TSP the input has at
\* most one driver and capacity is not active, while time windows may be;
\* no request classified TSP has more than one vehicle
C30_TspHasOneDriverAtMost ==
    /\ TaggedTsp =>
          /\ Len(call.drivers) <= 1
          /\ ~Analysis.flags.hasCapacity
    /\ TspRequestHasOneVehicle

\* a request built for one driver and an order with a time window, tagged
\* TSP with time windows active
C30_Witness ==
    /\ BuilderDone /\ ret.outcome.ok /\ TaggedTsp
    /\ Len(call.drivers) = 1
    /\ Analysis.flags.hasTimeWindows
    /\ Len(Request.vehicles) = 1
    /\ \E i \in 1..Len(Request.visits) : IsSome(Request.visits[i].time_window)
====
